---- MODULE Spec2Model ----
(***************************************************************************)
(* ram-sentinel: the sampler / decision engine (Monitor::check) and the    *)
(* kill engine (Killer::kill_sequence, find_champion, kill_process),       *)
(* together with the environment they run against: the process table      *)
(* behind /proc, the kernel re-assigning pids, and the clock.              *)
(***************************************************************************)
EXTENDS Integers, Sequences, FiniteSets, TLC

(***************************************************************************)
(* Bounds of the model.                                                    *)
(***************************************************************************)
\* pids are 1..MaxPid; the daemon itself is pid MyPid
MaxPid == 3
\* number of processes the environment may create after Init (pid reuse)
MaxBirths == 1
\* largest kill budget handed to kill_sequence, in pages
MaxBudgetPages == 2

(***************************************************************************)
(* Program constants.                                                      *)
(***************************************************************************)
\* usize::MAX, the match_index of a process no kill target matches
\* (the largest integer of the model checker stands for 2^64 - 1)
UsizeMax == 2147483647
\* the page size assumed when sysconf(PAGE_SIZE) fails
PageSize == 4096
\* after_comm.split_whitespace().nth(19)
StartTimeNth == 19
\* the byte that replaces a NUL of the command line
Space == 32

MyPid == 1
Pids == 1..MaxPid

\* Option<T>
None == [some |-> FALSE, v |-> 0]
Some(x) == [some |-> TRUE, v |-> x]

(***************************************************************************)
(* Pattern::matches.  A command line is a sequence of bytes.  A Regex is   *)
(* modelled by the fragment "sequence of atoms, each a byte or the         *)
(* wildcard -1", searched unanchored as Regex::is_match does.              *)
(***************************************************************************)
Contains(s, lit) ==
    \E i \in 0..(Len(s) - Len(lit)) : SubSeq(s, i + 1, i + Len(lit)) = lit

StartsWith(s, p) ==
    Len(p) <= Len(s) /\ SubSeq(s, 1, Len(p)) = p

IsMatch(s, re) ==
    \E i \in 0..(Len(s) - Len(re)) :
        \A k \in 1..Len(re) : re[k] = -1 \/ re[k] = s[i + k]

Matches(pat, s) ==
    CASE pat.kind = "Literal" -> Contains(s, pat.s)
      [] pat.kind = "Regex" -> IsMatch(s, pat.s)
      [] pat.kind = "StartsWith" -> StartsWith(s, pat.s)

Literal(s) == [kind |-> "Literal", s |-> s]
Regex(s) == [kind |-> "Regex", s |-> s]
StartsWithPat(s) == [kind |-> "StartsWith", s |-> s]

\* a faulty replacement: the NULs are left in
KeepNulls(bytes) == bytes

\* for b in read_buffer.iter_mut() { if *b == 0 { *b = 32 } }
ReplaceNulls(bytes) ==
    [k \in 1..Len(bytes) |-> IF bytes[k] = 0 THEN Space ELSE bytes[k]]

\* the ignore loop: some ignore pattern matches
Ignored(ctx, cmdline) ==
    \E k \in 1..Len(ctx.ignore_names_regex) :
        Matches(ctx.ignore_names_regex[k], cmdline)

\* a faulty match index: no match ranks with the first kill target
MatchIndexZero(ctx, cmdline) ==
    LET hits == {k \in 1..Len(ctx.kill_targets_regex) :
                    Matches(ctx.kill_targets_regex[k], cmdline)}
    IN  IF hits = {} THEN 0
        ELSE (CHOOSE k \in hits : \A j \in hits : k <= j) - 1

\* a faulty match index: the loop over the kill targets does not break, the
\* last target that matches gives the index
MatchIndexLast(ctx, cmdline) ==
    LET hits == {k \in 1..Len(ctx.kill_targets_regex) :
                    Matches(ctx.kill_targets_regex[k], cmdline)}
    IN  IF hits = {} THEN UsizeMax
        ELSE (CHOOSE k \in hits : \A j \in hits : k >= j) - 1

\* the first kill target that matches, usize::MAX when none does
MatchIndex(ctx, cmdline) ==
    LET hits == {k \in 1..Len(ctx.kill_targets_regex) :
                    Matches(ctx.kill_targets_regex[k], cmdline)}
    IN  IF hits = {} THEN UsizeMax
        ELSE (CHOOSE k \in hits : \A j \in hits : k <= j) - 1

(***************************************************************************)
(* /proc/[pid]/stat as the kernel writes it: "pid (comm) state ppid ...",  *)
(* a sequence of blank-separated tokens.  A token is a number or a word;   *)
(* `closes` says that it ends in ")" (so that ") " follows it when it is   *)
(* not the last token).  A comm may hold blanks and parentheses: a process *)
(* with `extra` = k has a comm like "x) y1 .. yk", which yields k more     *)
(* tokens after the first ") ".  `utf8` is false for a comm that is not    *)
(* valid UTF-8.                                                            *)
(***************************************************************************)
Num(n) == [num |-> TRUE, v |-> n, closes |-> FALSE]
Word(closes) == [num |-> FALSE, v |-> 0, closes |-> closes]

CommTokens(extra) ==
    IF extra = 0 THEN <<Word(TRUE)>>
    ELSE <<Word(TRUE)>> \o [k \in 1..extra |-> Word(k = extra)]

\* fields 3..24 of proc(5): state ppid pgrp session tty_nr tpgid flags
\* minflt cminflt majflt cmajflt utime stime cutime cstime priority nice
\* num_threads itrealvalue starttime vsize rss
StatTokens(pid, p) ==
    <<Num(pid)>> \o CommTokens(p.extra) \o
    <<Word(FALSE), Num(1), Num(pid), Num(pid), Num(0), Num(-1), Num(0),
      Num(0), Num(0), Num(0), Num(0), Num(0), Num(0), Num(0), Num(0),
      Num(20 + p.nice), Num(p.nice), Num(1), Num(0), Num(p.id),
      Num(0), Num(p.pages)>>

\* s.split_once(") "): the index of the first token that ends in ")" and
\* is followed by a blank, 0 when there is none
SplitOnce(toks) ==
    LET at == {k \in 1..(Len(toks) - 1) : toks[k].closes}
    IN  IF at = {} THEN 0 ELSE CHOOSE k \in at : \A j \in at : k <= j

\* from_utf8, split_once(") "), split_whitespace().nth(19), parse::<u64>()
ParseStartTime(stat) ==
    IF ~stat.utf8 THEN None
    ELSE LET at == SplitOnce(stat.toks)
             n == at + StartTimeNth + 1
         IN  IF at = 0 \/ n > Len(stat.toks) THEN None
             ELSE IF stat.toks[n].num /\ stat.toks[n].v >= 0
                  THEN Some(stat.toks[n].v)
                  ELSE None

(***************************************************************************)
(* The environment: the process table behind /proc.                        *)
(* A process is [id, uid, cmd, pages, oom, extra, utf8, nice]: `id` is its *)
(* identity, which is also its start time (field 22 of stat; the kernel    *)
(* never gives two holders of one pid the same start time), `cmd` the      *)
(* bytes of cmdline, `pages` the resident pages of statm, `oom` oom_score. *)
(***************************************************************************)
NoProc == [id |-> 0, uid |-> 0, cmd |-> <<>>, pages |-> 0, oom |-> 0,
           extra |-> 0, utf8 |-> TRUE, nice |-> 0]

Profiles ==
    { [uid |-> 1000, cmd |-> <<97, 0, 98>>, pages |-> 2, oom |-> 1,
       extra |-> 0, utf8 |-> TRUE, nice |-> 0],
      [uid |-> 1000, cmd |-> <<98>>, pages |-> 1, oom |-> 2,
       extra |-> 0, utf8 |-> TRUE, nice |-> 0],
      [uid |-> 1001, cmd |-> <<98, 0, 97>>, pages |-> 2, oom |-> 3,
       extra |-> 1, utf8 |-> TRUE, nice |-> 0],
      [uid |-> 1000, cmd |-> <<97>>, pages |-> 0, oom |-> 2,
       extra |-> 3, utf8 |-> TRUE, nice |-> -5] }

\* what the kernel may give a freed pid to: also a process whose comm is
\* not valid UTF-8
Newborns ==
    Profiles \cup {[uid |-> 1000, cmd |-> <<98, 98>>, pages |-> 1, oom |-> 2,
                    extra |-> 0, utf8 |-> FALSE, nice |-> 0]}

\* a process that stays in /proc whatever it is sent: a zombie its parent
\* has not reaped, with an empty cmdline and no resident pages
Zombie ==
    [uid |-> 1000, cmd |-> <<>>, pages |-> 0, oom |-> 0,
     extra |-> 0, utf8 |-> TRUE, nice |-> 0]

\* the profiles of the tables kill_sequence is followed to its end on
ZombieProfiles ==
    {Zombie} \cup {pr \in Profiles : pr.uid = 1000 /\ pr.extra = 0}

Born(profile, id) ==
    [id |-> id, uid |-> profile.uid, cmd |-> profile.cmd,
     pages |-> profile.pages, oom |-> profile.oom, extra |-> profile.extra,
     utf8 |-> profile.utf8, nice |-> profile.nice]

\* the daemon's own process
Daemon(uid) ==
    [id |-> MyPid, uid |-> uid, cmd |-> <<98>>, pages |-> 3, oom |-> 4,
     extra |-> 0, utf8 |-> TRUE, nice |-> 0]

Present(table, pid) == table[pid].id # 0

\* Uid::effective() of the daemon: root or an ordinary user
Euids == {0, 1000}

(***************************************************************************)
(* The part of RuntimeContext the kill engine reads.                       *)
(***************************************************************************)
KillContexts ==
    { [kill_strategy |-> "LargestRss",
       ignore_names_regex |-> <<>>,
       kill_targets_regex |-> <<Literal(<<98>>), Literal(<<97>>)>>],
      [kill_strategy |-> "HighestOomScore",
       ignore_names_regex |-> <<Literal(<<97, 32, 98>>)>>,
       kill_targets_regex |-> <<StartsWithPat(<<97>>), Literal(<<98>>)>>],
      [kill_strategy |-> "LargestRss",
       ignore_names_regex |-> <<Regex(<<98, -1, 97>>)>>,
       kill_targets_regex |-> <<Literal(<<99>>)>>] }

\* fs::read_dir("/proc"): one entry that is no pid, then the pids
DirEntries ==
    <<[numeric |-> FALSE, pid |-> 0]>> \o
    [k \in 1..MaxPid |-> [numeric |-> TRUE, pid |-> k]]

\* budgets kill_sequence is invoked with
Budgets == {None, Some(0), Some(MaxBudgetPages * PageSize)}

VARIABLES
    procs,          \* pid -> process (NoProc: the pid is free)
    births,         \* processes created since Init
    euid,           \* the daemon's effective uid
    ctx,            \* RuntimeContext
    kpc,            \* where the kill engine is
    scan_i,         \* find_champion: index of the next /proc entry
    champ,          \* find_champion: current_champion
    victim,         \* kill_process: the champion it was called with
    amount_needed,  \* kill_sequence: the remaining budget
    seq_N,          \* the budget the sequence was invoked with
    credited,       \* sum of the rss credited in this sequence
    n_aborted,      \* KillSequenceAborted events of this sequence
    sent,           \* signals sent in the current kill_process call
    obs,            \* what the verification of that call read
    last_ret,       \* what the last kill_process call returned
    cands,          \* the candidates the current scan has looked at
    kev             \* events emitted since the current scan began

kvars == <<procs, births, euid, ctx, kpc, scan_i, champ, victim,
           amount_needed, seq_N, credited, n_aborted, sent, obs, last_ret,
           cands, kev>>

VARIABLES
    mon,            \* the Monitor's fields
    clock,          \* Instant::now() at the last check()
    returned,       \* the time at which the last check() returned
    ticks,          \* calls of check() so far
    status,         \* the MonitorStatus the last check() returned
    kill_event,     \* the event inside Kill(event)
    mev,            \* events the monitor emitted last (new() or check())
    psi_read,       \* whether the last check() called read_psi()
    pending_warn,   \* pending_warn at the end of the last check()
    gauges,         \* what the gauges read at the last check()
    log_debug,      \* get_log_level() >= LogLevel::Debug
    no_kill,        \* run_loop's argument: --no-kill
    RUNNING,        \* the flag the SIGTERM/SIGINT handler clears
    input,          \* what Config::load finds: the file, PSI, the Config
    loaded          \* what Config::load returned to main()

mvars == <<mon, clock, returned, ticks, status, kill_event, mev, psi_read,
           pending_warn, gauges, log_debug, no_kill, RUNNING, input,
           loaded>>

vars == <<kvars, mvars>>

NoChampion == [some |-> FALSE, pid |-> 0, score |-> 0, rss |-> 0,
               match_index |-> 0, start_time |-> 0, who |-> 0, uid |-> 0,
               cmd |-> <<>>]
NoObs == [done |-> FALSE, readable |-> FALSE, parsed |-> None, holder |-> 0]
NoRet == [called |-> FALSE, freed |-> None, why |-> "none"]

(***************************************************************************)
(* find_champion: what the loop body does with one /proc entry.            *)
(* The process may exit while its entry is looked at: `gone` names the     *)
(* first read that fails for that reason ("none": all reads succeed).      *)
(***************************************************************************)
Reads == <<"meta", "cmdline", "score", "stat">>
ReadNo(file) == CHOOSE k \in 1..Len(Reads) : Reads[k] = file
\* a read that fails alone, the process alive: File::open or read of statm
\* or oom_score returns an error (EMFILE, ENOMEM, EACCES)
ScoreOnly == "score only"

ReadOk(gone, file) ==
    \/ gone = "none"
    \/ IF gone = ScoreOnly THEN file # "score"
       ELSE ReadNo(file) < ReadNo(gone)

\* a faulty Filter 2: the daemon's own entry is let through
FilterSelfOff(pid) == TRUE

\* a faulty Filter 3: no ownership check
FilterUidOff(uid, p, gone) == TRUE

\* a faulty Final Comparison: the score alone decides
BeatenByScore(cur, match_index, score) ==
    cur.some /\ score <= cur.score

\* Filter 2: never kill self
FilterSelf(pid) == pid # MyPid

\* Filter 3: ownership check (if not root); unreadable metadata skips
FilterUid(uid, p, gone) ==
    uid = 0 \/ (ReadOk(gone, "meta") /\ p.uid = uid)

\* statm, field 2, times the page size; 0 when statm cannot be read
ReadRss(p, readable) == IF readable THEN p.pages * PageSize ELSE 0

\* B. Calculate Score & RSS
ScoreRss(c, p, gone) ==
    IF c.kill_strategy = "LargestRss"
    THEN LET rss == ReadRss(p, ReadOk(gone, "score"))
         IN  [score |-> rss, rss |-> rss]
    ELSE [score |-> IF ReadOk(gone, "score") THEN p.oom ELSE 0, rss |-> 0]

\* a faulty Final Comparison: an entry that ties with the champion is not
\* passed over
BeatenUnlessTie(cur, match_index, score) ==
    /\ cur.some
    /\ IF match_index = cur.match_index THEN score < cur.score
       ELSE match_index > cur.match_index

\* Final Comparison: TRUE when the entry is passed over
Beaten(cur, match_index, score) ==
    /\ cur.some
    /\ IF match_index = cur.match_index THEN score <= cur.score
       ELSE match_index > cur.match_index

\* C. Become the Champion: stat must be readable and yield a start time
ReadStat(pid, p, readable) ==
    [readable |-> readable, utf8 |-> p.utf8,
     toks |-> IF readable THEN StatTokens(pid, p) ELSE <<>>]

StartTimeOf(stat) == IF stat.readable THEN ParseStartTime(stat) ELSE None

\* what the scan saw of an entry that passed the filters: its match index,
\* its score when it got one, and how the entry ended ("outranked" by the
\* short-circuit, "beaten" in the final comparison, "nostat" when no start
\* time could be read, "champion")
Cand(pid, stage, match_index, score) ==
    {[pid |-> pid, stage |-> stage, match_index |-> match_index,
      score |-> score]}

\* the loop body for the entry of process p at pid, with champion cur:
\* the new champion, and what the scan saw of the entry (empty when a
\* filter skipped it).  Besides the fields of Champion the record keeps
\* whose stat gave the start time (who), the uid of its /proc directory
\* and the bytes of its cmdline.
Consider(c, uid, cur, pid, p, gone) ==
    IF ~FilterSelf(pid) THEN [champ |-> cur, cand |-> {}]
    ELSE IF ~FilterUid(uid, p, gone) THEN [champ |-> cur, cand |-> {}]
    ELSE IF ~ReadOk(gone, "cmdline") THEN [champ |-> cur, cand |-> {}]
    ELSE LET cmdline == ReplaceNulls(p.cmd) IN
    IF Ignored(c, cmdline) THEN [champ |-> cur, cand |-> {}]
    ELSE LET match_index == MatchIndex(c, cmdline) IN
    IF cur.some /\ match_index > cur.match_index
    THEN [champ |-> cur, cand |-> Cand(pid, "outranked", match_index, 0)]
    ELSE LET sr == ScoreRss(c, p, gone) IN
    IF Beaten(cur, match_index, sr.score)
    THEN [champ |-> cur, cand |-> Cand(pid, "beaten", match_index, sr.score)]
    ELSE LET st == StartTimeOf(ReadStat(pid, p, ReadOk(gone, "stat"))) IN
    IF ~st.some
    THEN [champ |-> cur, cand |-> Cand(pid, "nostat", match_index, sr.score)]
    ELSE [champ |-> [some |-> TRUE, pid |-> pid, score |-> sr.score,
                     rss |-> sr.rss, match_index |-> match_index,
                     start_time |-> st.v, who |-> p.id, uid |-> p.uid,
                     cmd |-> p.cmd],
          cand |-> Cand(pid, "champion", match_index, sr.score)]

\* Post-Loop: a champion with rss 0 gets its rss from statm, read now
FillRss(table, cur) ==
    IF cur.some /\ cur.rss = 0
    THEN [cur EXCEPT !.rss = ReadRss(table[cur.pid], Present(table, cur.pid))]
    ELSE cur

(***************************************************************************)
(* kill(2) as the kernel answers it.                                       *)
(***************************************************************************)
KillErrno(table, uid, pid) ==
    IF ~Present(table, pid) THEN "ESRCH"
    ELSE IF uid # 0 /\ table[pid].uid # uid THEN "EPERM"
    ELSE "OK"

Signal(sig, table, pid, v) ==
    [sig |-> sig, pid |-> pid, target |-> table[pid].id,
     uid |-> table[pid].uid, captured |-> v.who]

\* a faulty loop: it ends after the first kill whatever the budget
AfterKillOnce(freed, needed) ==
    [done |-> TRUE, aborted |-> ~freed.some, needed |-> needed]

\* a faulty loop: a kill that failed is followed by another scan
AfterKillRetry(freed, needed) ==
    IF freed.some
    THEN IF needed.some
         THEN IF freed.v >= needed.v
              THEN [done |-> TRUE, aborted |-> TRUE, needed |-> needed]
              ELSE [done |-> FALSE, aborted |-> FALSE,
                    needed |-> Some(needed.v - freed.v)]
         ELSE [done |-> TRUE, aborted |-> FALSE, needed |-> needed]
    ELSE [done |-> FALSE, aborted |-> TRUE, needed |-> needed]

\* a faulty loop: what a kill frees is not taken off the budget
AfterKillKeepsBudget(freed, needed) ==
    IF freed.some
    THEN IF needed.some
         THEN IF freed.v >= needed.v
              THEN [done |-> TRUE, aborted |-> TRUE, needed |-> needed]
              ELSE [done |-> FALSE, aborted |-> FALSE, needed |-> needed]
         ELSE [done |-> TRUE, aborted |-> FALSE, needed |-> needed]
    ELSE [done |-> TRUE, aborted |-> TRUE, needed |-> needed]

(***************************************************************************)
(* kill_sequence: what the loop does with the result of kill_process.      *)
(* freed is Some(bytes) or None; the result says whether the loop ends,    *)
(* whether KillSequenceAborted is emitted and the remaining budget.        *)
(***************************************************************************)
AfterKill(freed, needed) ==
    IF freed.some
    THEN IF needed.some
         THEN IF freed.v >= needed.v
              THEN [done |-> TRUE, aborted |-> TRUE, needed |-> needed]
              ELSE [done |-> FALSE, aborted |-> FALSE,
                    needed |-> Some(needed.v - freed.v)]
         ELSE [done |-> TRUE, aborted |-> FALSE, needed |-> needed]
    ELSE [done |-> TRUE, aborted |-> TRUE, needed |-> needed]

\* a faulty verification: a readable stat always escalates
VerifyIdentityBlind(stat, v) ==
    IF ~stat.readable THEN "gone" ELSE "escalate"

\* 2. Verify Identity: "gone", "reuse" or "escalate"
VerifyIdentity(stat, v) ==
    IF ~stat.readable THEN "gone"
    ELSE LET new_st == ParseStartTime(stat)
         IN  IF new_st.some /\ new_st.v # v.start_time THEN "reuse"
             ELSE "escalate"

(***************************************************************************)
(* Events of the kill engine.                                              *)
(***************************************************************************)
KillSequenceAborted(reason) ==
    [type |-> "KillSequenceAborted", pid |-> 0, detail |-> reason]
KillCandidateSelected(pid) ==
    [type |-> "KillCandidateSelected", pid |-> pid, detail |-> ""]
KillCandidateIgnored(pid, reason) ==
    [type |-> "KillCandidateIgnored", pid |-> pid, detail |-> reason]
KillExecuted(pid, strategy) ==
    [type |-> "KillExecuted", pid |-> pid, detail |-> strategy]

CountAborted(evs) ==
    Cardinality({k \in 1..Len(evs) : evs[k].type = "KillSequenceAborted"})

(***************************************************************************)
(* Initial state of the kill engine and its environment: any process table *)
(* over the profiles, the daemon at MyPid, the engine idle.                *)
(***************************************************************************)
Tables(uid) ==
    {t \in [Pids -> {NoProc} \cup {Born(pr, 1) : pr \in Profiles}] :
        t[MyPid] = NoProc}

InitTable(uid, t) ==
    [pid \in Pids |->
        IF pid = MyPid THEN Daemon(uid)
        ELSE IF t[pid] = NoProc THEN NoProc
        ELSE [t[pid] EXCEPT !.id = pid]]

\* Killer::new(): the engine holds nothing between kill sequences
KillIdle ==
    /\ births = 0
    /\ kpc = "idle"
    /\ scan_i = 1
    /\ champ = NoChampion
    /\ victim = NoChampion
    /\ amount_needed = None
    /\ seq_N = None
    /\ credited = 0
    /\ n_aborted = 0
    /\ sent = <<>>
    /\ obs = NoObs
    /\ last_ret = NoRet
    /\ cands = {}
    /\ kev = <<>>

NoGauges == [available_memory |-> 0, total_memory |-> 0, free_swap |-> 0,
             total_swap |-> 0, psi |-> None]

\* Monitor::new() at time 0; psi is what read_psi() returned then
NewMonitor(psi) ==
    [last_psi_total |-> psi, last_psi_time |-> 0, last_warn_time |-> None,
     ram_bytes |-> None, ram_percent |-> None, swap_bytes |-> None,
     swap_percent |-> None, psi_pressure |-> None]

\* Config::load has returned the context: nothing of it is kept
NoConfig == [source |-> "done"]
NotLoaded == [done |-> FALSE, ok |-> FALSE, err |-> "", exit_code |-> 0]

ConfigAside ==
    /\ input = NoConfig
    /\ loaded = NotLoaded

\* no Monitor yet
MonitorIdle ==
    /\ mon = NewMonitor(None)
    /\ clock = 0
    /\ returned = 0
    /\ ticks = 0
    /\ status = "none"
    /\ kill_event = None
    /\ mev = <<>>
    /\ psi_read = FALSE
    /\ pending_warn = None
    /\ gauges = NoGauges
    /\ log_debug = FALSE
    /\ no_kill = FALSE
    /\ RUNNING = TRUE

\* the monitor left aside
MonitorQuiet ==
    /\ ConfigAside
    /\ MonitorIdle

KillInit ==
    /\ euid \in Euids
    /\ ctx \in KillContexts
    /\ \E t \in Tables(euid) : procs = InitTable(euid, t)
    /\ KillIdle
    /\ MonitorQuiet

\* the same, over tables that may hold a zombie
ZombieTables ==
    {t \in [Pids -> {NoProc} \cup {Born(pr, 1) : pr \in ZombieProfiles}] :
        t[MyPid] = NoProc}

ZombieInit ==
    /\ euid \in Euids
    /\ ctx \in KillContexts
    /\ \E t \in ZombieTables : procs = InitTable(euid, t)
    /\ KillIdle
    /\ MonitorQuiet

(***************************************************************************)
(* The environment's steps: a process exits; the kernel gives a free pid   *)
(* to a new process, at most MaxBirths times in a kill sequence.  The      *)
(* sequence starts from any table.  Of the table the engine reads the      *)
(* entry its loop is at (an exit there is ScanStep's `gone`) and the entry *)
(* of the champion it holds; what happens at other pids shows as another   *)
(* table at the start.  So the environment steps at the pid the engine     *)
(* holds: the champion's during the scan, the victim's in kill_process.    *)
(***************************************************************************)
Held(pid) ==
    IF kpc = "scan" THEN champ.some /\ pid = champ.pid
    ELSE kpc \in {"sigterm", "verify", "sigkill"} /\ pid = victim.pid

Exit(pid) ==
    /\ UNCHANGED mvars
    /\ Held(pid)
    /\ pid # MyPid
    /\ Present(procs, pid)
    /\ procs' = [procs EXCEPT ![pid] = NoProc]
    /\ UNCHANGED <<births, euid, ctx, kpc, scan_i, champ, victim,
                   amount_needed, seq_N, credited, n_aborted, sent, obs,
                   last_ret, cands, kev>>

Spawn(pid, profile) ==
    /\ UNCHANGED mvars
    /\ Held(pid)
    /\ births < MaxBirths
    /\ ~Present(procs, pid)
    /\ procs' = [procs EXCEPT ![pid] = Born(profile, MaxPid + births + 1)]
    /\ births' = births + 1
    /\ UNCHANGED <<euid, ctx, kpc, scan_i, champ, victim, amount_needed,
                   seq_N, credited, n_aborted, sent, obs, last_ret, cands,
                   kev>>

(***************************************************************************)
(* kill_sequence                                                           *)
(***************************************************************************)
\* kill_sequence(ctx, needed) is entered
Invoke(needed) ==
    /\ kpc' = "scan"
    /\ scan_i' = 1
    /\ champ' = NoChampion
    /\ victim' = NoChampion
    /\ amount_needed' = needed
    /\ seq_N' = needed
    /\ credited' = 0
    /\ n_aborted' = 0
    /\ sent' = <<>>
    /\ obs' = NoObs
    /\ last_ret' = NoRet
    /\ cands' = {}
    /\ kev' = <<>>
    /\ UNCHANGED <<procs, births, euid, ctx>>

\* kill_sequence(ctx, needed) called on an idle engine
StartKillSequence(needed) ==
    /\ UNCHANGED mvars
    /\ kpc = "idle"
    /\ Invoke(needed)

\* fs::read_dir("/proc") fails: find_champion emits KillSequenceAborted and
\* returns None, and kill_sequence emits its own for the missing champion
ScanFails ==
    /\ UNCHANGED mvars
    /\ kpc = "scan"
    /\ scan_i = 1
    /\ kpc' = "done"
    /\ kev' = kev \o <<KillSequenceAborted("Failed to read /proc"),
                       KillSequenceAborted("No eligible kill candidates found!")>>
    /\ n_aborted' = n_aborted + 2
    /\ UNCHANGED <<procs, births, euid, ctx, scan_i, champ, victim,
                   amount_needed, seq_N, credited, sent, obs, last_ret, cands>>

\* one iteration of `for entry in entries`; the first one of a scan drops
\* what is recorded of the kill_process call before it
ScanStep(gone) ==
    /\ UNCHANGED mvars
    /\ kpc = "scan"
    /\ scan_i <= Len(DirEntries)
    /\ scan_i' = scan_i + 1
    /\ LET e == DirEntries[scan_i] IN
       IF e.numeric /\ Present(procs, e.pid)
       THEN LET r == Consider(ctx, euid, champ, e.pid, procs[e.pid], gone) IN
            /\ gone # "none" => e.pid # MyPid
            /\ champ' = r.champ
            /\ procs' = IF gone \in {"none", ScoreOnly} THEN procs
                        ELSE [procs EXCEPT ![e.pid] = NoProc]
       ELSE /\ gone = "none"
            /\ UNCHANGED <<champ, procs>>
    /\ IF scan_i = 1
       THEN /\ victim' = NoChampion
            /\ sent' = <<>>
            /\ obs' = NoObs
            /\ last_ret' = NoRet
            /\ kev' = <<>>
       ELSE UNCHANGED <<victim, sent, obs, last_ret, kev>>
    /\ UNCHANGED <<births, euid, ctx, kpc, amount_needed, seq_N, credited,
                   n_aborted>>

\* what that iteration sees of its entry
Seen(gone) ==
    LET e == DirEntries[scan_i] IN
    IF e.numeric /\ Present(procs, e.pid)
    THEN Consider(ctx, euid, champ, e.pid, procs[e.pid], gone).cand
    ELSE {}

ScanEntry(gone) == ScanStep(gone) /\ UNCHANGED cands

\* the same step, with what the scan saw kept in cands
ScanEntryObserved(gone) == ScanStep(gone) /\ cands' = cands \cup Seen(gone)

\* the end of find_champion and what kill_sequence does with its result,
\* up to the call of kill_process
EndScan ==
    /\ UNCHANGED mvars
    /\ kpc = "scan"
    /\ scan_i > Len(DirEntries)
    /\ LET c == FillRss(procs, champ) IN
       IF c.some
       THEN /\ victim' = c
            /\ champ' = c
            /\ kev' = <<KillCandidateSelected(c.pid)>>
            /\ kpc' = "sigterm"
            /\ sent' = <<>>
            /\ obs' = NoObs
            /\ UNCHANGED n_aborted
       ELSE /\ kev' = Append(kev, KillSequenceAborted("No eligible kill candidates found!"))
            /\ n_aborted' = n_aborted + 1
            /\ kpc' = "done"
            /\ UNCHANGED <<victim, champ, sent, obs>>
    /\ UNCHANGED <<procs, births, euid, ctx, scan_i, amount_needed, seq_N,
                   credited, last_ret, cands>>

\* kill_process returns `freed` having emitted evs; kill_sequence goes on
Return(freed, why, evs) ==
    LET r == AfterKill(freed, amount_needed)
        mine == IF r.aborted
                THEN <<KillSequenceAborted(IF freed.some THEN "Target reached."
                                           ELSE "Failed to kill victim")>>
                ELSE <<>>
    IN  /\ last_ret' = [called |-> TRUE, freed |-> freed, why |-> why]
        /\ credited' = credited + (IF freed.some THEN freed.v ELSE 0)
        /\ amount_needed' = r.needed
        /\ kev' = kev \o evs \o mine
        /\ n_aborted' = n_aborted + CountAborted(evs \o mine)
        /\ IF r.done
           THEN /\ kpc' = "done"
                /\ UNCHANGED <<scan_i, champ, cands>>
           ELSE /\ kpc' = "scan"
                /\ scan_i' = 1
                /\ champ' = NoChampion
                /\ cands' = {}

\* 1. Send SIGTERM
SendSigterm ==
    /\ UNCHANGED mvars
    /\ kpc = "sigterm"
    /\ LET errno == KillErrno(procs, euid, victim.pid) IN
       CASE errno = "OK" ->
              /\ sent' = Append(sent, Signal("SIGTERM", procs, victim.pid, victim))
              /\ kpc' = "verify"
              /\ UNCHANGED <<scan_i, champ, amount_needed, credited,
                             n_aborted, last_ret, cands, kev>>
         [] errno = "ESRCH" ->
              /\ Return(Some(victim.rss), "esrch",
                        <<KillCandidateIgnored(victim.pid, "ESRCH (Already gone)")>>)
              /\ UNCHANGED sent
         [] OTHER ->
              /\ Return(None, "sigterm_failed",
                        <<KillSequenceAborted("Failed to send SIGTERM")>>)
              /\ UNCHANGED sent
    /\ UNCHANGED <<procs, births, euid, ctx, victim, seq_N, obs>>

\* after the sleep of sigterm_wait_ms: 2. Verify Identity
Verify ==
    /\ UNCHANGED mvars
    /\ kpc = "verify"
    /\ LET stat == ReadStat(victim.pid, procs[victim.pid],
                            Present(procs, victim.pid))
           verdict == VerifyIdentity(stat, victim)
       IN  /\ obs' = [done |-> TRUE, readable |-> stat.readable,
                      parsed |-> StartTimeOf(stat),
                      holder |-> procs[victim.pid].id]
           /\ CASE verdict = "gone" ->
                     Return(Some(victim.rss), "gone",
                            <<KillExecuted(victim.pid, "SIGTERM")>>)
                [] verdict = "reuse" ->
                     Return(Some(victim.rss), "reuse",
                            <<KillCandidateIgnored(victim.pid,
                                   "PID Reuse detected during wait")>>)
                [] OTHER ->
                     /\ kpc' = "sigkill"
                     /\ UNCHANGED <<scan_i, champ, amount_needed, credited,
                                    n_aborted, last_ret, cands, kev>>
    /\ UNCHANGED <<procs, births, euid, ctx, victim, seq_N, sent>>

\* 3. SIGKILL
SendSigkill ==
    /\ UNCHANGED mvars
    /\ kpc = "sigkill"
    /\ LET errno == KillErrno(procs, euid, victim.pid) IN
       IF errno = "OK"
       THEN /\ sent' = Append(sent, Signal("SIGKILL", procs, victim.pid, victim))
            /\ Return(Some(victim.rss), "sigkill",
                      <<KillExecuted(victim.pid, "SIGKILL")>>)
       ELSE /\ Return(None, "sigkill_failed",
                      <<KillSequenceAborted("Failed to send SIGKILL")>>)
            /\ UNCHANGED sent
    /\ UNCHANGED <<procs, births, euid, ctx, victim, seq_N, obs>>

(***************************************************************************)
(* The sampler and decision engine: Monitor::check.                        *)
(* Times are in milliseconds.  A float is kept as an exact fraction        *)
(* [num, den] with den > 0 (the rounding of f32/f64 is not modelled).       *)
(***************************************************************************)
Rat(n, d) == [num |-> n, den |-> d]
RatLt(r, k) == r.num < k * r.den
\* a faulty comparison: at the threshold counts as above it
RatGe(r, k) == r.num >= k * r.den
RatGt(r, k) == r.num > k * r.den

\* faulty helpers: the percent limit is consulted although a byte limit is
\* set
CheckKillEither(config, free_bytes, free_percent) ==
    IF config.kill_min_free_bytes.some
          /\ free_bytes < config.kill_min_free_bytes.v
    THEN Some([threshold |-> config.kill_min_free_bytes.v, type |-> "bytes"])
    ELSE IF config.kill_min_free_percent.some
              /\ RatLt(free_percent, config.kill_min_free_percent.v)
         THEN Some([threshold |-> config.kill_min_free_percent.v, type |-> "percent"])
         ELSE None

\* helpers returning (threshold_val, type_string)
check_kill(config, free_bytes, free_percent) ==
    IF config.kill_min_free_bytes.some
    THEN IF free_bytes < config.kill_min_free_bytes.v
         THEN Some([threshold |-> config.kill_min_free_bytes.v, type |-> "bytes"])
         ELSE None
    ELSE IF config.kill_min_free_percent.some
              /\ RatLt(free_percent, config.kill_min_free_percent.v)
         THEN Some([threshold |-> config.kill_min_free_percent.v, type |-> "percent"])
         ELSE None

check_warn(config, free_bytes, free_percent) ==
    IF config.warn_min_free_bytes.some
    THEN IF free_bytes < config.warn_min_free_bytes.v
         THEN Some([threshold |-> config.warn_min_free_bytes.v, type |-> "bytes"])
         ELSE None
    ELSE IF config.warn_min_free_percent.some
              /\ RatLt(free_percent, config.warn_min_free_percent.v)
         THEN Some([threshold |-> config.warn_min_free_percent.v, type |-> "percent"])
         ELSE None

\* a faulty calc_needed: a target that is not above the free amount gives
\* a budget of 0
CalcNeededZero(config, current_free, total) ==
    LET target == IF config.kill_min_free_bytes.some
                  THEN config.kill_min_free_bytes.v
                  ELSE IF config.kill_min_free_percent.some
                  THEN (total * config.kill_min_free_percent.v) \div 100
                  ELSE 0
    IN  IF target > current_free THEN Some(target - current_free) ELSE Some(0)

\* (total as f64 * (percent as f64 / 100.0)) as u64 truncates
calc_needed(config, current_free, total) ==
    LET target == IF config.kill_min_free_bytes.some
                  THEN config.kill_min_free_bytes.v
                  ELSE IF config.kill_min_free_percent.some
                  THEN (total * config.kill_min_free_percent.v) \div 100
                  ELSE 0
    IN  IF target > current_free THEN Some(target - current_free) ELSE None

\* SentinelEvent, the variants the monitor builds
KillTriggered(trigger, observed, hit, amount) ==
    [type |-> "KillTriggered", trigger |-> trigger, bytes |-> 0,
     observed |-> observed, threshold |-> hit.threshold,
     threshold_type |-> hit.type, amount_needed |-> amount]
WarnEvent(type, bytes, observed, hit) ==
    [type |-> type, trigger |-> "", bytes |-> bytes, observed |-> observed,
     threshold |-> hit.threshold, threshold_type |-> hit.type,
     amount_needed |-> None]
MonitorEvent ==
    [type |-> "Monitor", trigger |-> "", bytes |-> 0, observed |-> Rat(0, 1),
     threshold |-> 0, threshold_type |-> "", amount_needed |-> None]

WarnTypes == {"LowMemoryWarn", "LowSwapWarn", "PsiPressureWarn"}

(***************************************************************************)
(* check() runs its tiers in turn over a record st:                        *)
(*   m        the Monitor's fields                                         *)
(*   ret      Some(event) once a tier has returned Kill(event)             *)
(*   pending  pending_warn                                                 *)
(*   psi_read whether read_psi() was called                                *)
(* A tier that finds ret set does nothing: check() has returned.           *)
(***************************************************************************)
\* Priority 1: RAM (Hard Limit)
RamTier(c, rd, st) ==
    IF st.ret.some \/ ~c.ram.some \/ rd.total_memory <= 0 THEN st
    ELSE LET available == rd.available_memory
             total == rd.total_memory
             percent_free == Rat(available * 100, total)
             m1 == [st.m EXCEPT !.ram_bytes = Some(available),
                                !.ram_percent = Some(percent_free)]
             kill == check_kill(c.ram.v, available, percent_free)
             warn == check_warn(c.ram.v, available, percent_free)
         IN  IF kill.some
             THEN [st EXCEPT !.m = m1,
                     !.ret = Some(KillTriggered("LowMemory",
                                 IF kill.v.type = "bytes" THEN Rat(available, 1)
                                 ELSE percent_free,
                                 kill.v, calc_needed(c.ram.v, available, total)))]
             ELSE IF warn.some /\ ~st.pending.some
             THEN [st EXCEPT !.m = m1,
                     !.pending = Some(WarnEvent("LowMemoryWarn", available,
                                                percent_free, warn.v))]
             ELSE [st EXCEPT !.m = m1]

\* a faulty swap tier: it does not look at total_swap
SwapTierUnguarded(c, rd, st) ==
    IF st.ret.some \/ ~c.swap.some THEN st
    ELSE LET free == rd.free_swap
             total == rd.total_swap
             percent_free == Rat(free * 100, total)
             m1 == [st.m EXCEPT !.swap_bytes = Some(free),
                                !.swap_percent = Some(percent_free)]
             kill == check_kill(c.swap.v, free, percent_free)
             warn == check_warn(c.swap.v, free, percent_free)
         IN  IF kill.some
             THEN [st EXCEPT !.m = m1,
                     !.ret = Some(KillTriggered("LowSwap",
                                 IF kill.v.type = "bytes" THEN Rat(free, 1)
                                 ELSE percent_free,
                                 kill.v, calc_needed(c.swap.v, free, total)))]
             ELSE IF warn.some /\ ~st.pending.some
             THEN [st EXCEPT !.m = m1,
                     !.pending = Some(WarnEvent("LowSwapWarn", free,
                                                percent_free, warn.v))]
             ELSE [st EXCEPT !.m = m1]

\* a faulty swap tier: its warn replaces the one the RAM tier left pending
SwapTierOverwrites(c, rd, st) ==
    IF st.ret.some \/ ~c.swap.some \/ rd.total_swap <= 0 THEN st
    ELSE LET free == rd.free_swap
             total == rd.total_swap
             percent_free == Rat(free * 100, total)
             m1 == [st.m EXCEPT !.swap_bytes = Some(free),
                                !.swap_percent = Some(percent_free)]
             kill == check_kill(c.swap.v, free, percent_free)
             warn == check_warn(c.swap.v, free, percent_free)
         IN  IF kill.some
             THEN [st EXCEPT !.m = m1,
                     !.ret = Some(KillTriggered("LowSwap",
                                 IF kill.v.type = "bytes" THEN Rat(free, 1)
                                 ELSE percent_free,
                                 kill.v, calc_needed(c.swap.v, free, total)))]
             ELSE IF warn.some
             THEN [st EXCEPT !.m = m1,
                     !.pending = Some(WarnEvent("LowSwapWarn", free,
                                                percent_free, warn.v))]
             ELSE [st EXCEPT !.m = m1]

\* Priority 2: Swap (Hard Limit)
SwapTier(c, rd, st) ==
    IF st.ret.some \/ ~c.swap.some \/ rd.total_swap <= 0 THEN st
    ELSE LET free == rd.free_swap
             total == rd.total_swap
             percent_free == Rat(free * 100, total)
             m1 == [st.m EXCEPT !.swap_bytes = Some(free),
                                !.swap_percent = Some(percent_free)]
             kill == check_kill(c.swap.v, free, percent_free)
             warn == check_warn(c.swap.v, free, percent_free)
         IN  IF kill.some
             THEN [st EXCEPT !.m = m1,
                     !.ret = Some(KillTriggered("LowSwap",
                                 IF kill.v.type = "bytes" THEN Rat(free, 1)
                                 ELSE percent_free,
                                 kill.v, calc_needed(c.swap.v, free, total)))]
             ELSE IF warn.some /\ ~st.pending.some
             THEN [st EXCEPT !.m = m1,
                     !.pending = Some(WarnEvent("LowSwapWarn", free,
                                                percent_free, warn.v))]
             ELSE [st EXCEPT !.m = m1]

\* a faulty pressure: the distance of the two counter readings, whichever
\* is the larger
PressureAbs(current_total, last_total, time_delta_us) ==
    LET total_delta == IF current_total >= last_total
                       THEN current_total - last_total
                       ELSE last_total - current_total
    IN  IF time_delta_us > 0 THEN Rat(total_delta * 100, time_delta_us)
        ELSE Rat(0, 1)

\* (total_delta / time_delta_us) * 100.0, with saturating_sub and 0.0 for
\* no elapsed time
Pressure(current_total, last_total, time_delta_us) ==
    LET total_delta == IF current_total >= last_total
                       THEN current_total - last_total ELSE 0
    IN  IF time_delta_us > 0 THEN Rat(total_delta * 100, time_delta_us)
        ELSE Rat(0, 1)

\* a faulty schedule: the PSI tier runs at every tick
PsiDueAlways(c, m, now) == c.psi.some

\* whether the PSI tier is due at `now`
PsiDue(c, m, now) ==
    c.psi.some /\ now - m.last_psi_time >= c.psi.v.check_interval_ms

\* a faulty PSI tier: a failed read moves the baseline's timestamp
PsiTierRestamps(c, rd, now, st) ==
    IF st.ret.some \/ ~PsiDue(c, st.m, now) THEN st
    ELSE IF ~rd.psi.some
    THEN [st EXCEPT !.psi_read = TRUE, !.m.last_psi_time = now]
    ELSE IF ~st.m.last_psi_total.some
    THEN [st EXCEPT !.psi_read = TRUE,
                    !.m.last_psi_total = Some(rd.psi.v),
                    !.m.last_psi_time = now]
    ELSE LET pressure == Pressure(rd.psi.v, st.m.last_psi_total.v,
                                  (now - st.m.last_psi_time) * 1000)
             m1 == [st.m EXCEPT !.last_psi_total = Some(rd.psi.v),
                                !.last_psi_time = now,
                                !.psi_pressure = Some(pressure)]
             s1 == [st EXCEPT !.psi_read = TRUE, !.m = m1]
         IN  IF c.psi.v.kill_max_percent.some
                /\ RatGt(pressure, c.psi.v.kill_max_percent.v)
             THEN [s1 EXCEPT !.ret = Some(KillTriggered("PsiPressure", pressure,
                        [threshold |-> c.psi.v.kill_max_percent.v,
                         type |-> "percent"],
                        Some(c.psi.v.amount_to_free.v)))]
             ELSE IF ~st.pending.some /\ c.psi.v.warn_max_percent.some
                     /\ RatGt(pressure, c.psi.v.warn_max_percent.v)
             THEN [s1 EXCEPT !.pending = Some(WarnEvent("PsiPressureWarn", 0,
                        pressure, [threshold |-> c.psi.v.warn_max_percent.v,
                                   type |-> "percent"]))]
             ELSE s1

\* a faulty PSI tier: without a baseline the pressure is computed against
\* a counter of 0
PsiTierNoBaseline(c, rd, now, st) ==
    IF st.ret.some \/ ~PsiDue(c, st.m, now) THEN st
    ELSE IF ~rd.psi.some THEN [st EXCEPT !.psi_read = TRUE]
    ELSE LET pressure == Pressure(rd.psi.v, st.m.last_psi_total.v,
                                  (now - st.m.last_psi_time) * 1000)
             m1 == [st.m EXCEPT !.last_psi_total = Some(rd.psi.v),
                                !.last_psi_time = now,
                                !.psi_pressure = Some(pressure)]
             s1 == [st EXCEPT !.psi_read = TRUE, !.m = m1]
         IN  IF c.psi.v.kill_max_percent.some
                /\ RatGt(pressure, c.psi.v.kill_max_percent.v)
             THEN [s1 EXCEPT !.ret = Some(KillTriggered("PsiPressure", pressure,
                        [threshold |-> c.psi.v.kill_max_percent.v,
                         type |-> "percent"],
                        Some(c.psi.v.amount_to_free.v)))]
             ELSE IF ~st.pending.some /\ c.psi.v.warn_max_percent.some
                     /\ RatGt(pressure, c.psi.v.warn_max_percent.v)
             THEN [s1 EXCEPT !.pending = Some(WarnEvent("PsiPressureWarn", 0,
                        pressure, [threshold |-> c.psi.v.warn_max_percent.v,
                                   type |-> "percent"]))]
             ELSE s1

\* Priority 3: PSI
PsiTier(c, rd, now, st) ==
    IF st.ret.some \/ ~PsiDue(c, st.m, now) THEN st
    ELSE IF ~rd.psi.some THEN [st EXCEPT !.psi_read = TRUE]
    ELSE IF ~st.m.last_psi_total.some
    THEN [st EXCEPT !.psi_read = TRUE,
                    !.m.last_psi_total = Some(rd.psi.v),
                    !.m.last_psi_time = now]
    ELSE LET pressure == Pressure(rd.psi.v, st.m.last_psi_total.v,
                                  (now - st.m.last_psi_time) * 1000)
             m1 == [st.m EXCEPT !.last_psi_total = Some(rd.psi.v),
                                !.last_psi_time = now,
                                !.psi_pressure = Some(pressure)]
             s1 == [st EXCEPT !.psi_read = TRUE, !.m = m1]
         IN  IF c.psi.v.kill_max_percent.some
                /\ RatGt(pressure, c.psi.v.kill_max_percent.v)
             THEN [s1 EXCEPT !.ret = Some(KillTriggered("PsiPressure", pressure,
                        [threshold |-> c.psi.v.kill_max_percent.v,
                         type |-> "percent"],
                        Some(c.psi.v.amount_to_free.v)))]
             ELSE IF ~st.pending.some /\ c.psi.v.warn_max_percent.some
                     /\ RatGt(pressure, c.psi.v.warn_max_percent.v)
             THEN [s1 EXCEPT !.pending = Some(WarnEvent("PsiPressureWarn", 0,
                        pressure, [threshold |-> c.psi.v.warn_max_percent.v,
                                   type |-> "percent"]))]
             ELSE s1

\* a faulty rate limit: after the first warn no other is let through
CanWarnOnce(c, m, at_) == ~m.last_warn_time.some

\* can_warn reads the clock again: at_ is Instant::now() at that moment
can_warn(c, m, at_) ==
    IF m.last_warn_time.some
    THEN at_ - m.last_warn_time.v >= c.warn_reset_ms
    ELSE TRUE

\* a faulty Final Decision: the pending warn is emitted before the tiers'
\* Kill is looked at
FinalDecisionWarnFirst(c, debug, now, at_, st) ==
    LET warned == st.pending.some /\ can_warn(c, st.m, at_)
        out == IF warned THEN <<st.pending.v>> ELSE <<>>
        m1 == IF warned THEN [st.m EXCEPT !.last_warn_time = Some(now)]
              ELSE st.m
    IN  IF st.ret.some
        THEN [status |-> "Kill", event |-> st.ret, emitted |-> out, m |-> m1,
              psi_read |-> st.psi_read, pending |-> st.pending]
        ELSE [status |-> IF warned THEN "Warn" ELSE "Normal", event |-> None,
              emitted |-> (IF debug THEN <<MonitorEvent>> ELSE <<>>) \o out,
              m |-> m1, psi_read |-> st.psi_read, pending |-> st.pending]

\* the heartbeat and the Final Decision (Warnings): the status returned,
\* the events emitted and the Monitor's fields
FinalDecision(c, debug, now, at_, st) ==
    IF st.ret.some
    THEN [status |-> "Kill", event |-> st.ret, emitted |-> <<>>, m |-> st.m,
          psi_read |-> st.psi_read, pending |-> st.pending]
    ELSE LET beat == IF debug THEN <<MonitorEvent>> ELSE <<>> IN
         IF st.pending.some /\ can_warn(c, st.m, at_)
         THEN [status |-> "Warn", event |-> None,
               emitted |-> Append(beat, st.pending.v),
               m |-> [st.m EXCEPT !.last_warn_time = Some(now)],
               psi_read |-> st.psi_read, pending |-> st.pending]
         ELSE [status |-> "Normal", event |-> None, emitted |-> beat,
               m |-> st.m, psi_read |-> st.psi_read, pending |-> st.pending]

\* a faulty check(): the swap tier runs before the RAM tier
CheckSwapFirst(c, m, rd, debug, now, at_) ==
    LET st0 == [m |-> m, ret |-> None, pending |-> None, psi_read |-> FALSE]
    IN  FinalDecision(c, debug, now, at_,
            PsiTier(c, rd, now, RamTier(c, rd, SwapTier(c, rd, st0))))

\* Monitor::check(ctx) called at `now`, the gauges reading rd
Check(c, m, rd, debug, now, at_) ==
    LET st0 == [m |-> m, ret |-> None, pending |-> None, psi_read |-> FALSE]
    IN  FinalDecision(c, debug, now, at_,
            PsiTier(c, rd, now, SwapTier(c, rd, RamTier(c, rd, st0))))

Environment ==
    \/ \E pid \in Pids : Exit(pid)
    \/ \E pid \in Pids, profile \in Newborns : Spawn(pid, profile)

Gones == {"none"} \cup {Reads[k] : k \in 1..Len(Reads)}

\* the kill engine against its environment
KillNext ==
    \/ \E needed \in Budgets : StartKillSequence(needed)
    \/ ScanFails
    \/ \E gone \in Gones : ScanEntry(gone)
    \/ EndScan
    \/ SendSigterm
    \/ Verify
    \/ SendSigkill
    \/ Environment

SpecKiller == KillInit /\ [][KillNext]_vars

\* the steps of the daemon's thread; it is never held up for ever: the only
\* wait in kill_sequence is the sleep of sigterm_wait_ms
Engine ==
    \/ \E needed \in Budgets : StartKillSequence(needed)
    \/ ScanFails
    \/ \E gone \in Gones : ScanEntry(gone)
    \/ EndScan
    \/ SendSigterm
    \/ Verify
    \/ SendSigkill

\* the kill engine running on, its environment free to act or not
SpecKillerFair == ZombieInit /\ [][KillNext]_vars /\ WF_vars(Engine)

\* find_champion against its environment, every entry it sees recorded;
\* besides processes that exit, a single read may fail
ScanNext ==
    \/ StartKillSequence(None)
    \/ ScanFails
    \/ \E gone \in Gones \cup {ScoreOnly} : ScanEntryObserved(gone)
    \/ EndScan
    \/ Environment

SpecScan == KillInit /\ [][ScanNext]_vars

(***************************************************************************)
(* The monitor against its environment: the gauges and the clock.          *)
(***************************************************************************)
\* number of check() calls in a run
MaxTicks == 3

MemoryConfigParsed(wb, wp, kb, kp) ==
    [warn_min_free_bytes |-> wb, warn_min_free_percent |-> wp,
     kill_min_free_bytes |-> kb, kill_min_free_percent |-> kp]

PsiConfigParsed(w, k, amount, interval) ==
    [warn_max_percent |-> w, kill_max_percent |-> k,
     amount_to_free |-> amount, check_interval_ms |-> interval]

\* the part of RuntimeContext the monitor reads
MonitorContexts ==
    { [ram |-> Some(MemoryConfigParsed(None, Some(10), None, Some(5))),
       swap |-> None,
       psi |-> None,
       check_interval_ms |-> 100, warn_reset_ms |-> 250],
      [ram |-> Some(MemoryConfigParsed(Some(20), Some(50), Some(8), Some(50))),
       swap |-> Some(MemoryConfigParsed(None, Some(10), None, Some(5))),
       psi |-> Some(PsiConfigParsed(Some(20), Some(40), Some(500), 200)),
       check_interval_ms |-> 100, warn_reset_ms |-> 250],
      [ram |-> None,
       swap |-> Some(MemoryConfigParsed(Some(20), None, Some(8), None)),
       psi |-> Some(PsiConfigParsed(Some(20), None, None, 100)),
       check_interval_ms |-> 100, warn_reset_ms |-> 120] }

\* get_log_level() >= LogLevel::Debug: the heartbeat does not depend on the
\* tiers, it is switched on with the contexts of fewer tiers
LogLevels(c) == IF c.ram.some /\ c.swap.some THEN {FALSE} ELSE BOOLEAN

\* what refresh_memory() and read_psi() may report at a tick
Readings(c) ==
    { [available_memory |-> ram[1], total_memory |-> ram[2],
       free_swap |-> swap[1], total_swap |-> swap[2], psi |-> psi] :
        ram \in IF c.ram.some
                THEN {<<5, 200>>, <<7, 150>>, <<15, 200>>, <<50, 200>>, <<0, 0>>}
                ELSE {<<0, 0>>},
        swap \in IF c.swap.some
                 THEN {<<5, 200>>, <<15, 200>>, <<50, 200>>, <<0, 0>>}
                 ELSE {<<0, 0>>},
        psi \in IF c.psi.some
                THEN {None, Some(0), Some(30000), Some(100000)}
                ELSE {None} }

\* time from the return of one check() to the next: the sleep of
\* check_interval_ms; the first check() follows new() at once
Sleep(c, n) == IF n = 0 THEN 0 ELSE c.check_interval_ms

\* time from the start of check() to the clock reading of can_warn, after
\* which check() returns
Lags == {0, 50}

\* the events Monitor::new() emits ("logging test start")
Synthetic(type) ==
    [type |-> type, trigger |-> "", bytes |-> 0, observed |-> Rat(0, 1),
     threshold |-> 0, threshold_type |-> "", amount_needed |-> None]

StartupBattery ==
    <<Synthetic("Startup"), Synthetic("LowMemoryWarn"),
      Synthetic("LowSwapWarn"), Synthetic("PsiPressureWarn"),
      Synthetic("KillTriggered"), Synthetic("KillCandidateSelected"),
      Synthetic("KillExecuted"), Synthetic("KillSequenceAborted"),
      Synthetic("KillCandidateIgnored")>>

MonitorInit ==
    /\ ctx \in MonitorContexts
    /\ \E psi \in {None, Some(0)} : mon = NewMonitor(psi)
    /\ clock = 0
    /\ returned = 0
    /\ ticks = 0
    /\ status = "none"
    /\ kill_event = None
    /\ mev = StartupBattery
    /\ psi_read = FALSE
    /\ pending_warn = None
    /\ gauges = NoGauges
    /\ log_debug \in LogLevels(ctx)
    /\ no_kill = FALSE
    /\ RUNNING = TRUE
    /\ ConfigAside
    /\ euid = 0
    /\ procs = [pid \in Pids |-> IF pid = MyPid THEN Daemon(0) ELSE NoProc]
    /\ KillIdle

\* one call of check(): after the sleep that began at `since`, the gauges
\* reading rd, the clock read again by can_warn lag later
CheckStep(lag, rd, since) ==
    /\ ticks < MaxTicks
    /\ \E now \in {since + Sleep(ctx, ticks)} :
       \E r \in {Check(ctx, mon, rd, log_debug, now, now + lag)} :
           /\ clock' = now
           /\ returned' = now + lag
           /\ mon' = r.m
           /\ status' = r.status
           /\ kill_event' = r.event
           /\ mev' = r.emitted
           /\ psi_read' = r.psi_read
           /\ pending_warn' = r.pending
           /\ gauges' = rd
    /\ ticks' = ticks + 1
    /\ UNCHANGED <<log_debug, no_kill, RUNNING, input, loaded>>

\* check() alone: what the main loop does with the verdict is left out
Tick(lag, rd) == CheckStep(lag, rd, returned) /\ UNCHANGED kvars

MonitorNext ==
    \E lag \in Lags, rd \in Readings(ctx) : Tick(lag, rd)

SpecMonitor == MonitorInit /\ [][MonitorNext]_vars

(***************************************************************************)
(* run_loop: check(), the dispatch of its verdict, the sleep.  The kill    *)
(* engine blocks the loop: the next check() follows the return of          *)
(* kill_sequence.                                                          *)
(***************************************************************************)
Message(level, text) ==
    [type |-> "Message", pid |-> 0, detail |-> text, level |-> level]

\* a faulty severity: KillSequenceAborted ranks as an error
SeverityAbortIsError(ev) ==
    CASE ev.type = "Message" -> ev.level
      [] ev.type = "Monitor" -> "Debug"
      [] ev.type \in {"Startup", "KillCandidateSelected", "KillExecuted",
                      "KillCandidateIgnored"} -> "Info"
      [] ev.type \in WarnTypes -> "Warn"
      [] ev.type \in {"KillTriggered", "KillSequenceAborted"} -> "Error"

\* SentinelEvent::severity
severity(ev) ==
    CASE ev.type = "Message" -> ev.level
      [] ev.type = "Monitor" -> "Debug"
      [] ev.type \in {"Startup", "KillCandidateSelected", "KillExecuted",
                      "KillSequenceAborted", "KillCandidateIgnored"} -> "Info"
      [] ev.type \in WarnTypes -> "Warn"
      [] ev.type = "KillTriggered" -> "Error"

\* a RuntimeContext with the fields both the monitor and the engine read;
\* of the monitor's contexts those of fewer tiers
LoopContexts ==
    {mc @@ kc @@ [sigterm_wait_ms |-> 100] :
        mc \in {m \in MonitorContexts : ~(m.ram.some /\ m.swap.some)},
        kc \in {k \in KillContexts : /\ k.kill_strategy = "LargestRss"
                                     /\ k.ignore_names_regex = <<>>}}

\* process tables with one process of the daemon's user beside the daemon,
\* at the last pid
LoopTables ==
    {t \in Tables(1000) :
        \A pid \in Pids \ {MyPid} :
            IF pid = MaxPid
            THEN t[pid] # NoProc /\ t[pid].uid = 1000 /\ t[pid].extra = 0
            ELSE t[pid] = NoProc}

\* run_loop entered: the monitor built, the flag set
LoopStart ==
    /\ ctx \in LoopContexts
    /\ mon = NewMonitor(Some(0))
    /\ clock = 0
    /\ returned = 0
    /\ ticks = 0
    /\ status = "none"
    /\ kill_event = None
    /\ mev = StartupBattery
    /\ psi_read = FALSE
    /\ pending_warn = None
    /\ gauges = NoGauges
    /\ log_debug = FALSE
    /\ no_kill \in BOOLEAN
    /\ RUNNING = TRUE
    /\ ConfigAside
    /\ euid = 1000
    /\ KillIdle

LoopInit ==
    /\ LoopStart
    /\ \E t \in LoopTables : procs = InitTable(euid, t)

\* the time the last kill_sequence took: its sleep of sigterm_wait_ms
EngineTime == IF kpc = "done" /\ obs.done THEN ctx.sigterm_wait_ms ELSE 0

\* an iteration that does not enter kill_sequence: the engine holds nothing
Skip(evs) ==
    /\ kpc' = "idle"
    /\ scan_i' = 1
    /\ champ' = NoChampion
    /\ victim' = NoChampion
    /\ amount_needed' = None
    /\ seq_N' = None
    /\ credited' = 0
    /\ n_aborted' = CountAborted(evs)
    /\ sent' = <<>>
    /\ obs' = NoObs
    /\ last_ret' = NoRet
    /\ cands' = {}
    /\ kev' = evs
    /\ UNCHANGED <<procs, births, euid, ctx>>

\* a faulty iteration: --no-kill is announced and the engine called all the
\* same
RunLoopDeaf(lag, rd) ==
    /\ RUNNING
    /\ kpc \in {"idle", "done"}
    /\ CheckStep(lag, rd, returned + EngineTime)
    /\ IF status' # "Kill" THEN Skip(<<>>)
       ELSE IF no_kill /\ ~kill_event'.v.amount_needed.some
       THEN Skip(<<kill_event'.v,
                   Message("Info", "--no-kill active. Skipping kill sequence.")>>)
       ELSE IF kill_event'.v.type # "KillTriggered"
       THEN Skip(<<kill_event'.v,
                   Message("Error", "Monitor returned non-KillTriggered event in Kill status")>>)
       ELSE IF kill_event'.v.amount_needed.some
       THEN Invoke(kill_event'.v.amount_needed)
       ELSE Skip(<<kill_event'.v,
                   KillSequenceAborted("Kill triggered but amount_needed is None/Zero")>>)

\* one iteration of `while RUNNING`: check(), then the match on its verdict
RunLoop(lag, rd) ==
    /\ RUNNING
    /\ kpc \in {"idle", "done"}
    /\ CheckStep(lag, rd, returned + EngineTime)
    /\ IF status' # "Kill" THEN Skip(<<>>)
       ELSE IF no_kill
       THEN Skip(<<kill_event'.v,
                   Message("Info", "--no-kill active. Skipping kill sequence.")>>)
       ELSE IF kill_event'.v.type # "KillTriggered"
       THEN Skip(<<kill_event'.v,
                   Message("Error", "Monitor returned non-KillTriggered event in Kill status")>>)
       ELSE IF kill_event'.v.amount_needed.some
       THEN Invoke(kill_event'.v.amount_needed)
       ELSE Skip(<<kill_event'.v,
                   KillSequenceAborted("Kill triggered but amount_needed is None/Zero")>>)

LoopNext ==
    \/ \E rd \in Readings(ctx) : RunLoop(0, rd)
    \/ ScanFails
    \/ \E gone \in Gones : ScanEntry(gone)
    \/ EndScan
    \/ SendSigterm
    \/ Verify
    \/ SendSigkill
    \/ Environment

SpecLoop == LoopInit /\ [][LoopNext]_vars

\* handle_shutdown_signal: SIGTERM or SIGINT delivered to the daemon
HandleShutdownSignal ==
    /\ kpc # "exited"
    /\ RUNNING
    /\ RUNNING' = FALSE
    /\ UNCHANGED <<mon, clock, returned, ticks, status, kill_event, mev,
                   psi_read, pending_warn, gauges, log_debug, no_kill,
                   input, loaded>>
    /\ UNCHANGED kvars

\* `while RUNNING` found false: run_loop says goodbye and returns
ExitLoop ==
    /\ kpc \in {"idle", "done"}
    /\ ~RUNNING
    /\ kpc' = "exited"
    /\ kev' = <<Message("Info", "Exiting ram-sentinel.")>>
    /\ UNCHANGED <<procs, births, euid, ctx, scan_i, champ, victim,
                   amount_needed, seq_N, credited, n_aborted, sent, obs,
                   last_ret, cands>>
    /\ UNCHANGED mvars

\* the same tables, the one process possibly a zombie
ShutdownTables ==
    {t \in ZombieTables :
        \A pid \in Pids \ {MyPid} : (t[pid] # NoProc) <=> (pid = MaxPid)}

ShutdownInit ==
    /\ LoopStart
    /\ \E t \in ShutdownTables : procs = InitTable(euid, t)

\* the steps of the daemon's thread in run_loop: it sleeps check_interval_ms
\* or sigterm_wait_ms and goes on
Program ==
    \/ \E rd \in Readings(ctx) : RunLoop(0, rd)
    \/ ScanFails
    \/ \E gone \in Gones : ScanEntry(gone)
    \/ EndScan
    \/ SendSigterm
    \/ Verify
    \/ SendSigkill
    \/ ExitLoop

ShutdownNext ==
    \/ Program
    \/ HandleShutdownSignal
    \/ Environment

\* the daemon running on, signals and its environment free to act or not
SpecShutdown == ShutdownInit /\ [][ShutdownNext]_vars /\ WF_vars(Program)

(***************************************************************************)
(* Config::load.  A percent is an f32: a number or NaN, every comparison   *)
(* with NaN false.  A size string is a sequence of bytes.                  *)
(***************************************************************************)
F32(n) == [nan |-> FALSE, v |-> n]
NaN == [nan |-> TRUE, v |-> 0]

\* a < b on f32
F32Lt(a, b) == ~a.nan /\ ~b.nan /\ a.v < b.v

\* a <= b on f32
F32Le(a, b) == ~a.nan /\ ~b.nan /\ a.v <= b.v

\* !(0.0..=100.0).contains(&p), contains being 0.0 <= p && p <= 100.0
OutOfPercentRange(p) == ~(F32Le(F32(0), p) /\ F32Le(p, F32(100)))

\* warn < 0.0 || warn > 100.0
PsiOutOfRange(p) == F32Lt(p, F32(0)) \/ F32Lt(F32(100), p)

RECURSIVE Decimal(_)
Decimal(ds) ==
    IF ds = <<>> THEN 0
    ELSE Decimal(SubSeq(ds, 1, Len(ds) - 1)) * 10 + (ds[Len(ds)] - 48)

\* Byte::parse_str(s, true): digits, then no unit, "B", or "K"/"KB" in
\* either case (the units of the model's size strings)
parse_size(s) ==
    LET IsDigit(b) == 48 <= b /\ b <= 57
        n == IF \A k \in 1..Len(s) : IsDigit(s[k]) THEN Len(s)
             ELSE (CHOOSE k \in 1..Len(s) :
                      ~IsDigit(s[k]) /\ \A j \in 1..(k - 1) : IsDigit(s[j])) - 1
        unit == SubSeq(s, n + 1, Len(s))
        value == Decimal(SubSeq(s, 1, n))
    IN  IF n = 0 THEN None
        ELSE IF unit \in {<<>>, <<66>>, <<98>>} THEN Some(value)
        ELSE IF unit \in {<<75>>, <<107>>, <<75, 66>>, <<107, 98>>}
             THEN Some(value * 1000)
        ELSE None

\* get_total_memory(), in bytes
TotalMemory == 3000

\* Result<T, E>
Ok(x) == [ok |-> TRUE, err |-> "", v |-> x]
Err(e) == [ok |-> FALSE, err |-> e, v |-> None]

\* MemoryConfigParsed::try_from_config
MemoryTryFromConfig(c) ==
    LET wb == IF c.warn_min_free_bytes.some
              THEN parse_size(c.warn_min_free_bytes.v) ELSE None
        kb == IF c.kill_min_free_bytes.some
              THEN parse_size(c.kill_min_free_bytes.v) ELSE None
    IN  IF c.warn_min_free_bytes.some /\ ~wb.some THEN Err("InvalidSize")
        ELSE IF c.kill_min_free_bytes.some /\ ~kb.some THEN Err("InvalidSize")
        ELSE IF /\ c.warn_min_free_percent.some
                /\ OutOfPercentRange(c.warn_min_free_percent.v)
             THEN Err("InvalidPercent")
        ELSE IF /\ c.kill_min_free_percent.some
                /\ OutOfPercentRange(c.kill_min_free_percent.v)
             THEN Err("InvalidPercent")
        ELSE Ok(MemoryConfigParsed(wb, c.warn_min_free_percent, kb,
                                   c.kill_min_free_percent))

\* PsiConfigParsed::try_from_config
PsiTryFromConfig(c, global_interval) ==
    LET amt == IF c.amount_to_free.some
               THEN parse_size(c.amount_to_free.v) ELSE None
        interval == IF c.check_interval_ms.some THEN c.check_interval_ms.v
                    ELSE global_interval * 10
    IN  IF c.warn_max_percent.some /\ PsiOutOfRange(c.warn_max_percent.v)
        THEN Err("ValidationError")
        ELSE IF c.kill_max_percent.some /\ PsiOutOfRange(c.kill_max_percent.v)
        THEN Err("ValidationError")
        ELSE IF c.kill_max_percent.some /\ ~c.amount_to_free.some
        THEN Err("ValidationError")
        ELSE IF c.amount_to_free.some /\ ~amt.some THEN Err("ValidationError")
        ELSE IF amt.some /\ amt.v = 0 THEN Err("ValidationError")
        ELSE IF amt.some /\ amt.v > TotalMemory \div 2
        THEN Err("ValidationError")
        ELSE IF interval < 100 \/ interval > 300000 THEN Err("ValidationError")
        ELSE Ok(PsiConfigParsed(c.warn_max_percent, c.kill_max_percent, amt,
                                interval))

\* MemoryConfig::is_effectively_empty
MemoryEmpty(c) ==
    /\ ~c.warn_min_free_bytes.some
    /\ ~c.warn_min_free_percent.some
    /\ ~c.kill_min_free_bytes.some
    /\ ~c.kill_min_free_percent.some

\* PsiConfig::is_effectively_empty
PsiEmpty(c) == ~c.warn_max_percent.some /\ ~c.kill_max_percent.some

\* a faulty validate: the bounds are exclusive
ValidateExclusive(c) ==
    IF /\ c.psi.some => PsiEmpty(c.psi.v)
       /\ c.ram.some => MemoryEmpty(c.ram.v)
       /\ c.swap.some => MemoryEmpty(c.swap.v)
    THEN Err("EffectiveEmpty")
    ELSE IF c.check_interval_ms >= 300000 THEN Err("IntervalTooHigh")
    ELSE IF c.check_interval_ms <= 100 THEN Err("IntervalTooLow")
    ELSE Ok(0)

\* Config::validate
validate(c) ==
    IF /\ c.psi.some => PsiEmpty(c.psi.v)
       /\ c.ram.some => MemoryEmpty(c.ram.v)
       /\ c.swap.some => MemoryEmpty(c.swap.v)
    THEN Err("EffectiveEmpty")
    ELSE IF c.check_interval_ms > 300000 THEN Err("IntervalTooHigh")
    ELSE IF c.check_interval_ms < 100 THEN Err("IntervalTooLow")
    ELSE Ok(0)

\* Regex::new on the model's fragment: "." is the wildcard, an unclosed
\* "(" is a syntax error
RegexNew(str) ==
    IF \E k \in 1..Len(str) : str[k] = 40 THEN Err("Syntax")
    ELSE Ok([k \in 1..Len(str) |-> IF str[k] = 46 THEN -1 ELSE str[k]])

\* compile_patterns: "/re/", "^prefix", or a literal
compile_patterns(raw) ==
    LET CompileOne(str) ==
            IF Len(str) > 2 /\ str[1] = 47 /\ str[Len(str)] = 47
            THEN LET re == RegexNew(SubSeq(str, 2, Len(str) - 1))
                 IN  IF re.ok THEN Ok(Regex(re.v)) ELSE Err("RegexError")
            ELSE IF Len(str) > 1 /\ str[1] = 94
            THEN Ok(StartsWithPat(SubSeq(str, 2, Len(str))))
            ELSE Ok(Literal(str))
    IN  IF \E k \in 1..Len(raw) : ~CompileOne(raw[k]).ok
        THEN Err("RegexError")
        ELSE Ok([k \in 1..Len(raw) |-> CompileOne(raw[k]).v])

\* fn default_kill_targets: "type=renderer", "-contentproc"
default_kill_targets ==
    << <<116, 121, 112, 101, 61, 114, 101, 110, 100, 101, 114, 101, 114>>,
       <<45, 99, 111, 110, 116, 101, 110, 116, 112, 114, 111, 99>> >>

\* Config::sane_defaults
sane_defaults ==
    [psi |-> Some(PsiConfigParsed(None, None, None, None)),
     ram |-> Some(MemoryConfigParsed(None, Some(F32(10)), None, Some(F32(5)))),
     swap |-> Some(MemoryConfigParsed(None, None, None, None)),
     check_interval_ms |-> 1000,
     warn_reset_ms |-> 30000,
     sigterm_wait_ms |-> 5000,
     ignore_names |-> <<>>,
     kill_targets |-> default_kill_targets,
     kill_strategy |-> "HighestOomScore"]

\* Config::load.  in.source: "missing" (--config names no file),
\* "unreadable", "unparsable", "file" (in.config was parsed from it),
\* "defaults" (no --config and no file in the config directory)
Load(in) ==
    LET c == IF in.source = "defaults" THEN sane_defaults ELSE in.config
        checked == validate(c)
        ignore == compile_patterns(c.ignore_names)
        targets == compile_patterns(c.kill_targets)
        psi == IF c.psi.some THEN PsiTryFromConfig(c.psi.v, c.check_interval_ms)
               ELSE Ok(None)
        ram == IF c.ram.some THEN MemoryTryFromConfig(c.ram.v) ELSE Ok(None)
        swap == IF c.swap.some THEN MemoryTryFromConfig(c.swap.v) ELSE Ok(None)
    IN  CASE in.source = "missing" -> Err("ConfigFileNotFound")
          [] in.source = "unreadable" -> Err("FileRead")
          [] in.source = "unparsable" -> Err("FileParse")
          [] OTHER ->
               IF ~checked.ok THEN checked
               ELSE IF ~ignore.ok THEN ignore
               ELSE IF ~targets.ok THEN targets
               ELSE IF ~psi.ok THEN Err("PsiConfig")
               ELSE IF c.psi.some /\ ~in.psi_available
                    THEN Err("PsiUnavailable")
               ELSE IF ~ram.ok THEN ram
               ELSE IF ~swap.ok THEN swap
               ELSE Ok([psi |-> IF c.psi.some THEN Some(psi.v) ELSE None,
                        ram |-> IF c.ram.some THEN Some(ram.v) ELSE None,
                        swap |-> IF c.swap.some THEN Some(swap.v) ELSE None,
                        check_interval_ms |-> c.check_interval_ms,
                        warn_reset_ms |-> c.warn_reset_ms,
                        sigterm_wait_ms |-> c.sigterm_wait_ms,
                        kill_strategy |-> c.kill_strategy,
                        ignore_names_regex |-> ignore.v,
                        kill_targets_regex |-> targets.v])

\* ConfigError::exit_code
exit_code(err) ==
    CASE err \in {"FileRead", "ConfigFileNotFound"} -> 2
      [] err = "FileParse" -> 3
      [] err = "EffectiveEmpty" -> 4
      [] err = "IntervalTooHigh" -> 5
      [] err = "IntervalTooLow" -> 6
      [] err = "PsiConfig" -> 7
      [] err = "PsiUnavailable" -> 8
      [] err = "RegexError" -> 9
      [] err = "InvalidSize" -> 10
      [] err = "InvalidPercent" -> 11

\* the psi sections a configuration file may give: percents in and out
\* of range and NaN; amounts "0", "1K", "2K", "x"
PsiConfigs ==
    LET Percents == {None, Some(F32(-1)), Some(F32(0)), Some(F32(100)),
                     Some(F32(101)), Some(NaN)}
        Amounts == {None, Some(<<48>>), Some(<<49, 75>>), Some(<<50, 75>>),
                    Some(<<120>>)}
    IN  {None} \cup
        {Some(PsiConfigParsed(w, k, a, i)) :
            w \in Percents, k \in Percents, a \in Amounts,
            i \in {None, Some(100)}}

\* the ram and swap sections; sizes "5" and "x"
MemoryConfigs ==
    {None,
     Some(MemoryConfigParsed(None, None, None, None)),
     Some(MemoryConfigParsed(None, Some(F32(10)), None, Some(F32(5)))),
     Some(MemoryConfigParsed(None, Some(F32(101)), None, None)),
     Some(MemoryConfigParsed(None, None, None, Some(NaN))),
     Some(MemoryConfigParsed(Some(<<120>>), None, None, None)),
     Some(MemoryConfigParsed(None, None, Some(<<53>>), None))}

\* a Config as a file gives it
FileConfig(p, r, w, i, n) ==
    [psi |-> p, ram |-> r, swap |-> w, check_interval_ms |-> i,
     warn_reset_ms |-> 30000, sigterm_wait_ms |-> 5000,
     ignore_names |-> n, kill_targets |-> default_kill_targets,
     kill_strategy |-> "HighestOomScore"]

\* the RuntimeContext before Config::load has returned one
NoContext == [check_interval_ms |-> 0]

\* main() before Config::load
ConfigInit ==
    /\ \/ \E p \in PsiConfigs, r \in MemoryConfigs,
               w \in {None, Some(MemoryConfigParsed(None, None, None, None)),
                      Some(MemoryConfigParsed(None, None, None, Some(F32(5))))},
               i \in {99, 100, 1000, 300000, 300001},
               \* "/a./", "^b"; "/(/", which is no regex
               n \in {<< <<47, 97, 46, 47>>, <<94, 98>> >>, << <<47, 40, 47>> >>},
               a \in BOOLEAN :
             input = [source |-> "file", config |-> FileConfig(p, r, w, i, n),
                      psi_available |-> a]
       \/ \E src \in {"missing", "unreadable", "unparsable", "defaults"},
               a \in BOOLEAN :
             input = [source |-> src, config |-> sane_defaults,
                      psi_available |-> a]
    /\ loaded = NotLoaded
    /\ MonitorIdle
    /\ euid = 1000
    /\ ctx = NoContext
    /\ procs = [pid \in Pids |-> IF pid = MyPid THEN Daemon(euid) ELSE NoProc]
    /\ KillIdle

\* main(): Config::load, and exit(e.exit_code()) on an error
LoadConfig ==
    /\ ~loaded.done
    /\ input.source # "done"
    /\ LET res == Load(input)
       IN  /\ loaded' = [done |-> TRUE, ok |-> res.ok, err |-> res.err,
                         exit_code |-> IF res.ok THEN 0 ELSE exit_code(res.err)]
           /\ ctx' = IF res.ok THEN res.v ELSE ctx
    /\ UNCHANGED <<procs, births, euid, kpc, scan_i, champ, victim,
                   amount_needed, seq_N, credited, n_aborted, sent, obs,
                   last_ret, cands, kev>>
    /\ UNCHANGED <<mon, clock, returned, ticks, status, kill_event, mev,
                   psi_read, pending_warn, gauges, log_debug, no_kill,
                   RUNNING, input>>

SpecConfig == ConfigInit /\ [][LoadConfig]_vars

(***************************************************************************)
(* Properties of the kill engine                                           *)
(***************************************************************************)
Sigkills == {k \in 1..Len(sent) : sent[k].sig = "SIGKILL"}

\* the verification read a start time other than the captured one
SawReuse(o, v) ==
    o.done /\ o.readable /\ o.parsed.some /\ o.parsed.v # v.start_time

\* C1: in kill_process, when stat is readable after the sleep and the
\* start_time parsed from it differs from the one captured for the
\* champion, no SIGKILL is sent to the pid, the call returns Some (success)
\* and the victim's rss is credited toward amount_needed.
C1_ReuseIsSuccess ==
    [][(kpc = "verify" /\ SawReuse(obs', victim)) =>
          /\ kpc' # "sigkill"
          /\ sent' = sent
          /\ Sigkills = {}
          /\ last_ret' = [called |-> TRUE, freed |-> Some(victim.rss),
                          why |-> "reuse"]
          /\ credited' = credited + victim.rss
          /\ (amount_needed.some /\ victim.rss < amount_needed.v) =>
                 /\ amount_needed' = Some(amount_needed.v - victim.rss)
                 /\ kpc' = "scan"]_vars

\* the victim's pid went to another process during the wait, and the
\* verification read that process's start time
C1_Witness ==
    /\ SawReuse(obs, victim)
    /\ obs.holder # victim.who
    /\ victim.rss > 0
    /\ last_ret.why = "reuse"
    /\ Len(sent) = 1

\* C2: whatever the environment does (processes exit, their pid is given
\* to another process at any moment, stat of any shape), every SIGKILL is
\* delivered to the process whose start_time the scan captured, never to
\* another process that holds the pid by then.
C2_SigkillHitsCaptured ==
    \A k \in Sigkills : sent[k].target = sent[k].captured

\* C3: a kill_sequence invoked with amount_needed = N has, when it
\* returns, credited rss of at least N in sum or ended by emitting
\* KillSequenceAborted.
C3_BudgetMetOrAborted ==
    (kpc = "done" /\ seq_N.some) =>
        \/ credited >= seq_N.v
        \/ /\ kev # <<>>
           /\ kev[Len(kev)].type = "KillSequenceAborted"

\* a budget that took more than one kill to meet
C3_Witness ==
    /\ kpc = "done"
    /\ seq_N.some
    /\ seq_N.v > 0
    /\ credited >= seq_N.v
    /\ last_ret.freed.some
    /\ last_ret.freed.v < seq_N.v

\* the scan has looked at every entry of /proc
ScanOver == kpc = "scan" /\ scan_i > Len(DirEntries)

\* candidate c does not rank above the champion
Ranked(c) ==
    \/ champ.match_index < c.match_index
    \/ champ.match_index = c.match_index /\ c.score <= champ.score

Spaced(bytes) == [k \in 1..Len(bytes) |-> IF bytes[k] = 0 THEN 32 ELSE bytes[k]]
OwnMatchIndex == MatchIndex(ctx, Spaced(procs[MyPid].cmd))
OwnScore == ScoreRss(ctx, procs[MyPid], "none").score

\* C5: the daemon never selects its own pid as champion and never sends
\* SIGTERM or SIGKILL to its own pid.
C5_NeverSelf ==
    /\ champ.pid # MyPid
    /\ victim.pid # MyPid
    /\ \A k \in 1..Len(sent) : sent[k].pid # MyPid

\* a victim was signalled that the daemon's own process outranks
C5_Witness ==
    /\ Len(sent) > 0
    /\ ~Ignored(ctx, Spaced(procs[MyPid].cmd))
    /\ OwnMatchIndex <= victim.match_index
    /\ OwnScore > victim.score

\* C6: when the daemon is not root, every champion (and so every process
\* signalled) has the uid of the daemon; a pid whose metadata cannot be
\* read is skipped.
C6_OwnUidOnly ==
    euid # 0 =>
        /\ champ.some => champ.uid = euid
        /\ victim.some => victim.uid = euid
        /\ \A k \in 1..Len(sent) : sent[k].uid = euid

\* not root, a victim signalled while a process of another user that
\* outranks it is there
C6_Witness ==
    /\ euid # 0
    /\ Len(sent) > 0
    /\ \E pid \in Pids :
          /\ Present(procs, pid)
          /\ procs[pid].uid # euid
          /\ ~Ignored(ctx, Spaced(procs[pid].cmd))
          /\ MatchIndex(ctx, Spaced(procs[pid].cmd)) <= victim.match_index
          /\ ScoreRss(ctx, procs[pid], "none").score > victim.score

\* C7: a process whose command line (NULs replaced by blanks) matches an
\* ignore_names_regex pattern is never the champion, also when it matches
\* a kill target and also when it is the only process there.
C7_IgnoredNeverChampion ==
    champ.some =>
        \A k \in 1..Len(ctx.ignore_names_regex) :
            ~Matches(ctx.ignore_names_regex[k], Spaced(champ.cmd))

\* the scan ends without champion, the only process besides the daemon
\* one that matches a kill target and, its NULs replaced, an ignore pattern
C7_Witness ==
    /\ ScanOver
    /\ ~champ.some
    /\ \E pid \in Pids \ {MyPid} :
          /\ Present(procs, pid)
          /\ \A q \in Pids \ {MyPid, pid} : ~Present(procs, q)
          /\ \E b \in 1..Len(procs[pid].cmd) : procs[pid].cmd[b] = 0
          /\ MatchIndex(ctx, Spaced(procs[pid].cmd)) < UsizeMax
          /\ \E k \in 1..Len(ctx.ignore_names_regex) :
                Matches(ctx.ignore_names_regex[k], Spaced(procs[pid].cmd))

\* C12: a kill_sequence invoked with amount_needed = 0 returns at once: no
\* entry of /proc is read, no champion is selected and no signal is sent.
C12_ZeroBudgetReturnsAtOnce ==
    seq_N = Some(0) =>
        /\ scan_i = 1
        /\ ~champ.some
        /\ ~victim.some
        /\ sent = <<>>

\* the step of kill_process now due observes that the victim is gone: ESRCH
\* from the signal it sends, stat unreadable at the verification, or a
\* start time other than the captured one
ObservesGone ==
    \/ /\ kpc \in {"sigterm", "sigkill"}
       /\ KillErrno(procs, euid, victim.pid) = "ESRCH"
    \/ /\ kpc = "verify"
       /\ VerifyIdentity(ReadStat(victim.pid, procs[victim.pid],
                                  Present(procs, victim.pid)), victim)
              \in {"gone", "reuse"}

\* C13: whenever kill_process returns from a step that observed the victim
\* gone, it returns Some(victim.rss), so the sequence is not aborted for a
\* failed kill.
C13_GoneIsSuccess ==
    [][(ObservesGone /\ last_ret'.called /\ ~last_ret.called) =>
          /\ last_ret'.freed = Some(victim.rss)
          /\ credited' = credited + victim.rss]_vars

\* C14: every kill_sequence eventually returns, also when a victim is
\* credited with rss 0 or stays visible in /proc after SIGKILL.
C14_SequenceReturns == (kpc = "scan") ~> (kpc = "done")

Sigterms == {k \in 1..Len(sent) : sent[k].sig = "SIGTERM"}

\* C15: within one kill_process call a SIGKILL is sent only after a
\* successful SIGTERM to the same pid, after the sleep, and after a
\* verification that found stat readable with the captured start_time; at
\* most one SIGTERM and at most one SIGKILL are sent in the call.
C15_ProtocolOrder ==
    /\ Cardinality(Sigterms) <= 1
    /\ Cardinality(Sigkills) <= 1
    /\ Sigkills # {} =>
           /\ Sigterms = {1}
           /\ Sigkills = {2}
           /\ sent[1].pid = sent[2].pid
           /\ obs.done
           /\ obs.readable
           /\ obs.parsed = Some(victim.start_time)

\* no kill target matches the command line
Untargeted(cmd) ==
    \A k \in 1..Len(ctx.kill_targets_regex) :
        ~Matches(ctx.kill_targets_regex[k], Spaced(cmd))

\* no kill target matches any process of the table, nor the champion
NoTargetMatches ==
    /\ \A pid \in Pids : Present(procs, pid) => Untargeted(procs[pid].cmd)
    /\ champ.some => Untargeted(champ.cmd)

C28_UnreadableIsSkipped ==
    [][\A gone \in (Gones \cup {ScoreOnly}) \ {"none"} :
          (kpc = "scan" /\ scan_i <= Len(DirEntries) /\ ScanEntryObserved(gone)) =>
              /\ champ' = champ
              /\ \A c \in cands' \ cands : c.stage # "champion"
              /\ scan_i' = scan_i + 1
              /\ kpc' = "scan"]_vars

\* match_index mi is the rank of command line cmd: the 0-based index of a
\* kill target that matches it with no earlier target matching it, or
\* usize::MAX, and that exactly when no kill target matches
FirstMatch(mi, cmd) ==
    LET targets == ctx.kill_targets_regex
        hit(k) == Matches(targets[k], Spaced(cmd))
    IN  /\ mi \in (0..(Len(targets) - 1)) \cup {UsizeMax}
        /\ mi # UsizeMax => (hit(mi + 1) /\ \A j \in 1..mi : ~hit(j))
        /\ mi = UsizeMax <=> \A k \in 1..Len(targets) : ~hit(k)

\* C34: the match_index find_champion gives a candidate (one it passes
\* over as well as one it makes champion) is the index of the first
\* pattern of kill_targets_regex, in declaration order, that matches its
\* command line, also when later patterns match too, and usize::MAX
\* exactly when no pattern matches.
C34_FirstMatchingTarget ==
    [][/\ \A c \in cands' \ cands : FirstMatch(c.match_index, procs[c.pid].cmd)
       /\ (champ'.some /\ champ' # champ) =>
              FirstMatch(champ'.match_index, champ'.cmd)]_vars

\* a champion whose command line both kill targets match: index 0
C34_Witness ==
    /\ ScanOver
    /\ champ.some
    /\ Len(ctx.kill_targets_regex) = 2
    /\ \A k \in 1..2 : Matches(ctx.kill_targets_regex[k], Spaced(champ.cmd))
    /\ champ.match_index = 0
    /\ \E c \in cands : c.pid = champ.pid /\ c.stage = "champion"
                        /\ c.match_index = 0

KillCredited ==
    /\ kpc \in {"sigterm", "verify", "sigkill"}
    /\ kpc' \in {"done", "scan"}
    /\ last_ret'.freed.some

\* C36: after each kill_process that returns Some(rss): with a budget, if
\* rss >= the remaining amount the sequence stops with no further scan,
\* otherwise the remaining amount becomes remaining - rss, which is > 0
\* and not above the remaining amount (no underflow), and /proc is scanned
\* again; with no budget the sequence stops after that one kill.
C36_BudgetArithmetic ==
    [][KillCredited =>
          LET rss == last_ret'.freed.v IN
          /\ rss = victim.rss
          /\ credited' = credited + rss
          /\ (amount_needed.some /\ rss >= amount_needed.v) =>
                /\ kpc' = "done"
                /\ amount_needed' = amount_needed
          /\ (amount_needed.some /\ rss < amount_needed.v) =>
                /\ kpc' = "scan"
                /\ scan_i' = 1
                /\ champ' = NoChampion
                /\ amount_needed' = Some(amount_needed.v - rss)
                /\ amount_needed'.v > 0
                /\ amount_needed'.v <= amount_needed.v
          /\ ~amount_needed.some =>
                /\ kpc' = "done"
                /\ amount_needed' = None
                /\ credited' = rss]_vars

\* a kill that freed less than the budget: /proc is being scanned again
\* for the positive remainder
C36_Witness ==
    /\ kpc = "scan"
    /\ scan_i = 1
    /\ last_ret.called
    /\ last_ret.freed.some
    /\ last_ret.freed.v > 0
    /\ seq_N.some
    /\ amount_needed = Some(seq_N.v - last_ret.freed.v)
    /\ amount_needed.v > 0

\* C38: whatever the environment does between the /proc scan and the first
\* signal, every SIGTERM is delivered to the process that was scanned and
\* selected as champion (same pid and same start_time), never to another
\* process that took over the pid after the scan.
C38_SigtermHitsChampion ==
    \A k \in 1..Len(sent) :
        sent[k].sig = "SIGTERM" =>
            /\ sent[k].pid = victim.pid
            /\ sent[k].target = sent[k].captured

\* C39: every kill sequence has emitted exactly one KillSequenceAborted
\* event when it ends, also when /proc could not be read or a signal could
\* not be sent.
C39_OneAbortedPerSequence ==
    kpc = "done" => n_aborted = 1

(***************************************************************************)
(* Properties of Monitor::check()                                          *)
(***************************************************************************)
\* a step that is a call of check()
IsCheck == ticks' # ticks

\* whether the RAM, the swap gauge reads below its kill threshold
RamKills(c, rd) ==
    /\ c.ram.some
    /\ rd.total_memory > 0
    /\ check_kill(c.ram.v, rd.available_memory,
                  Rat(rd.available_memory * 100, rd.total_memory)).some
SwapKills(c, rd) ==
    /\ c.swap.some
    /\ rd.total_swap > 0
    /\ check_kill(c.swap.v, rd.free_swap,
                  Rat(rd.free_swap * 100, rd.total_swap)).some

\* C8: a check() that returns Kill emits no warn event, also when a
\* higher-priority tier left a warn pending earlier in the same tick, and
\* it leaves last_warn_time as it was.
C8_KillDominatesWarn ==
    [][(IsCheck /\ status' = "Kill") =>
          /\ \A i \in 1..Len(mev') : mev'[i].type \notin WarnTypes
          /\ mon'.last_warn_time = mon.last_warn_time]_vars

\* a Kill from the swap or the PSI tier while the RAM tier's warn is
\* pending and the rate limit would let it through
C8_Witness ==
    /\ ticks >= 1
    /\ status = "Kill"
    /\ kill_event.v.trigger \in {"LowSwap", "PsiPressure"}
    /\ pending_warn.some
    /\ pending_warn.v.type = "LowMemoryWarn"
    /\ can_warn(ctx, mon, clock)

\* C9: the tiers run in the order RAM, swap, PSI and the first kill
\* threshold crossed decides: RAM below its kill threshold gives LowMemory
\* whatever swap and PSI read, swap below its kill threshold (RAM not)
\* gives LowSwap; after either Kill the PSI counter is not read and
\* last_psi_total and last_psi_time are left as they were.
C9_TierOrder ==
    [][IsCheck =>
          LET ram == RamKills(ctx, gauges')
              swap == SwapKills(ctx, gauges')
              trigger == IF ram THEN "LowMemory" ELSE "LowSwap"
          IN  (ram \/ swap) =>
                  /\ status' = "Kill"
                  /\ kill_event'.some
                  /\ kill_event'.v.type = "KillTriggered"
                  /\ kill_event'.v.trigger = trigger
                  /\ ~psi_read'
                  /\ mon'.last_psi_total = mon.last_psi_total
                  /\ mon'.last_psi_time = mon.last_psi_time]_vars

\* RAM kills at a tick at which swap reads below its kill threshold too
\* and the PSI tier is due with a counter to read
C9_Witness ==
    /\ ticks >= 1
    /\ status = "Kill"
    /\ kill_event.v.trigger = "LowMemory"
    /\ RamKills(ctx, gauges)
    /\ SwapKills(ctx, gauges)
    /\ PsiDue(ctx, mon, clock)
    /\ gauges.psi.some
    /\ ~psi_read

\* C10: check() emits a warn and returns Warn only if no warn was emitted
\* before or now - last_warn_time >= warn_reset_ms, now the timestamp the
\* tick took; so the stamps of two emitted warns lie warn_reset_ms apart.
C10_WarnRateLimit ==
    [][(IsCheck /\ status' = "Warn") =>
          \/ ~mon.last_warn_time.some
          \/ clock' - mon.last_warn_time.v >= ctx.warn_reset_ms]_vars

\* check() emitted a warn event
Warned(evs) == \E i \in 1..Len(evs) : evs[i].type \in WarnTypes

\* C11: a tick whose pending warn the rate limit suppresses returns Normal,
\* emits no warn event and leaves last_warn_time as it was; and a tick with
\* a pending warn (and no Kill) at which warn_reset_ms has elapsed since
\* the last emitted warn, or before which none was emitted, emits it,
\* returns Warn and stamps last_warn_time with its timestamp.
C11_SuppressedThenAgain ==
    [][(IsCheck /\ pending_warn'.some /\ status' # "Kill") =>
          LET due == \/ ~mon.last_warn_time.some
                     \/ clock' - mon.last_warn_time.v >= ctx.warn_reset_ms
          IN  /\ due => /\ status' = "Warn"
                        /\ Warned(mev')
                        /\ mon'.last_warn_time = Some(clock')
              /\ status' # "Warn" =>
                     /\ status' = "Normal"
                     /\ ~Warned(mev')
                     /\ mon'.last_warn_time = mon.last_warn_time]_vars

\* a tick with a pending warn, returned Normal within warn_reset_ms of the
\* last emitted warn
C11_Witness ==
    /\ ticks >= 2
    /\ status = "Normal"
    /\ pending_warn.some
    /\ mon.last_warn_time.some
    /\ clock - mon.last_warn_time.v < ctx.warn_reset_ms
    /\ ~Warned(mev)

\* the verdict of the last check()
Killed(trigger) ==
    status = "Kill" /\ kill_event.some /\ kill_event.v.trigger = trigger
Pending(type) == pending_warn.some /\ pending_warn.v.type = type

\* C16: where a tier has kill_min_free_bytes (warn_min_free_bytes) set, its
\* kill (warn) decision is free_bytes < limit and nothing else: whatever
\* kill_min_free_percent (warn_min_free_percent) holds, the tier kills
\* (leaves a warn pending) exactly when the gauge reads below the byte
\* limit, and the event names the byte threshold.
C16_BytesDominate ==
    ticks >= 1 =>
    /\ (ctx.ram.some /\ gauges.total_memory > 0) =>
          LET conf == ctx.ram.v
              free == gauges.available_memory
          IN  /\ conf.kill_min_free_bytes.some =>
                    /\ Killed("LowMemory") <=> free < conf.kill_min_free_bytes.v
                    /\ Killed("LowMemory") =>
                           /\ kill_event.v.threshold_type = "bytes"
                           /\ kill_event.v.threshold = conf.kill_min_free_bytes.v
              /\ (conf.warn_min_free_bytes.some /\ ~Killed("LowMemory")) =>
                    /\ Pending("LowMemoryWarn") <=> free < conf.warn_min_free_bytes.v
                    /\ Pending("LowMemoryWarn") =>
                           /\ pending_warn.v.threshold_type = "bytes"
                           /\ pending_warn.v.threshold = conf.warn_min_free_bytes.v
    /\ (ctx.swap.some /\ gauges.total_swap > 0 /\ ~Killed("LowMemory")) =>
          LET conf == ctx.swap.v
              free == gauges.free_swap
          IN  /\ conf.kill_min_free_bytes.some =>
                    /\ Killed("LowSwap") <=> free < conf.kill_min_free_bytes.v
                    /\ Killed("LowSwap") =>
                           /\ kill_event.v.threshold_type = "bytes"
                           /\ kill_event.v.threshold = conf.kill_min_free_bytes.v
              /\ (conf.warn_min_free_bytes.some /\ ~Killed("LowSwap")
                     /\ ~Pending("LowMemoryWarn")) =>
                    /\ Pending("LowSwapWarn") <=> free < conf.warn_min_free_bytes.v
                    /\ Pending("LowSwapWarn") =>
                           /\ pending_warn.v.threshold_type = "bytes"
                           /\ pending_warn.v.threshold = conf.warn_min_free_bytes.v

\* a gauge at or above both byte limits and below both percent limits that
\* are set beside them: no kill and no warn from that tier
C16_Witness ==
    /\ ticks >= 1
    /\ ctx.ram.some
    /\ ctx.ram.v.kill_min_free_bytes.some
    /\ ctx.ram.v.kill_min_free_percent.some
    /\ ctx.ram.v.warn_min_free_bytes.some
    /\ ctx.ram.v.warn_min_free_percent.some
    /\ gauges.total_memory > 0
    /\ gauges.available_memory >= ctx.ram.v.warn_min_free_bytes.v
    /\ gauges.available_memory >= ctx.ram.v.kill_min_free_bytes.v
    /\ gauges.available_memory * 100
          < ctx.ram.v.kill_min_free_percent.v * gauges.total_memory
    /\ gauges.available_memory * 100
          < ctx.ram.v.warn_min_free_percent.v * gauges.total_memory
    /\ ~Killed("LowMemory")
    /\ ~Pending("LowMemoryWarn")

\* the PSI tier of this check() computes a pressure: no RAM or swap kill,
\* the PSI interval has elapsed, the counter was read and a baseline exists
PsiComputes ==
    /\ IsCheck
    /\ ~RamKills(ctx, gauges')
    /\ ~SwapKills(ctx, gauges')
    /\ ctx.psi.some
    /\ clock' - mon.last_psi_time >= ctx.psi.v.check_interval_ms
    /\ gauges'.psi.some
    /\ mon.last_psi_total.some

\* C18: the PSI pressure is (T_curr - T_prev) / (t_curr - t_prev) x 100
\* over the stall counter and the wall clock, both in microseconds; when
\* it is strictly above kill_max_percent check() returns Kill with trigger
\* PsiPressure and amount_needed = amount_to_free, and not when it is at
\* or below it; the baseline (last total, last time) is this tick's
\* reading and timestamp when check() returns.
C18_PsiKill ==
    [][PsiComputes =>
          LET dT == gauges'.psi.v - mon.last_psi_total.v
              dt == (clock' - mon.last_psi_time) * 1000
              p == mon'.psi_pressure
              above == /\ ctx.psi.v.kill_max_percent.some
                       /\ dT * 100 > ctx.psi.v.kill_max_percent.v * dt
          IN  /\ (dT >= 0 /\ dt > 0) =>
                     p = Some(Rat(dT * 100, dt))
              /\ mon'.last_psi_total = gauges'.psi
              /\ mon'.last_psi_time = clock'
              /\ (dT >= 0 /\ dt > 0 /\ above) =>
                     /\ status' = "Kill"
                     /\ kill_event'.v.type = "KillTriggered"
                     /\ kill_event'.v.trigger = "PsiPressure"
                     /\ kill_event'.v.amount_needed = ctx.psi.v.amount_to_free
              /\ (dT >= 0 /\ dt > 0 /\ ~above) => status' # "Kill"]_vars

\* a PSI Kill: the counter rose by more than kill_max_percent of the time
\* since the baseline
C18_Witness ==
    /\ ticks >= 1
    /\ status = "Kill"
    /\ kill_event.v.trigger = "PsiPressure"
    /\ kill_event.v.amount_needed = ctx.psi.v.amount_to_free
    /\ mon.last_psi_total = gauges.psi
    /\ mon.last_psi_time = clock
    /\ mon.psi_pressure.some
    /\ mon.psi_pressure.v.num > ctx.psi.v.kill_max_percent.v * mon.psi_pressure.v.den

\* C19: the PSI pressure neither underflows nor divides by zero: a counter
\* equal to the baseline, a counter below it (the difference saturates to
\* 0) and an elapsed time of 0 each give pressure 0, whatever the other
\* operand; a check() whose counter reads at or below the baseline stores
\* pressure 0, returns no Kill and leaves no PSI warn pending.
C19_PsiNoUnderflow ==
    [][PsiComputes =>
          /\ gauges'.psi.v <= mon.last_psi_total.v =>
                /\ mon'.psi_pressure.some
                /\ mon'.psi_pressure.v.num = 0
                /\ mon'.psi_pressure.v.den > 0
                /\ status' # "Kill"
                /\ ~(pending_warn'.some
                       /\ pending_warn'.v.type = "PsiPressureWarn")
          /\ \A last \in {0, gauges'.psi.v, 100000}, us \in {0, 1, 100000} :
                LET p == Pressure(gauges'.psi.v, last, us)
                IN  /\ p.den > 0
                    /\ p.num >= 0
                    /\ (gauges'.psi.v <= last \/ us = 0) => p.num = 0]_vars

\* a check() that read the counter below the baseline
C19_Witness ==
    /\ ticks >= 2
    /\ psi_read
    /\ gauges.psi.some
    /\ mon.last_psi_total = gauges.psi
    /\ mon.last_psi_time = clock
    /\ mon.psi_pressure.some
    /\ mon.psi_pressure.v.num = 0
    /\ mon.psi_pressure.v.den > 0
    /\ gauges.psi.v = 30000
    /\ status # "Kill"

\* C20: when total_swap reads 0 the swap tier is skipped: whatever the
\* swap thresholds, check() returns no LowSwap Kill, leaves no LowSwapWarn
\* pending or emitted and does not touch swap_bytes and swap_percent; the
\* evaluation goes on with the PSI tier, which reads the counter when it
\* is due and the RAM tier did not kill.
C20_NoSwapNoSwapTier ==
    [][(IsCheck /\ ctx.swap.some /\ gauges'.total_swap = 0) =>
          /\ ~(status' = "Kill" /\ kill_event'.v.trigger = "LowSwap")
          /\ ~(pending_warn'.some /\ pending_warn'.v.type = "LowSwapWarn")
          /\ \A i \in 1..Len(mev') : mev'[i].type # "LowSwapWarn"
          /\ mon'.swap_bytes = mon.swap_bytes
          /\ mon'.swap_percent = mon.swap_percent
          /\ (~RamKills(ctx, gauges') /\ ctx.psi.some
                /\ clock' - mon.last_psi_time >= ctx.psi.v.check_interval_ms) =>
                 psi_read']_vars

\* a check() with total_swap = 0 under byte thresholds that free_swap = 0
\* is below, gone on to read the PSI counter
C20_Witness ==
    /\ ticks >= 1
    /\ ctx.swap.some
    /\ ctx.swap.v.kill_min_free_bytes.some
    /\ gauges.total_swap = 0
    /\ gauges.free_swap < ctx.swap.v.kill_min_free_bytes.v
    /\ psi_read
    /\ ~Killed("LowSwap")
    /\ ~Pending("LowSwapWarn")

\* the PSI tier of this check() is due and read_psi() fails: no RAM or swap
\* kill, the PSI interval has elapsed, the counter could not be read
PsiReadFails ==
    /\ IsCheck
    /\ ~RamKills(ctx, gauges')
    /\ ~SwapKills(ctx, gauges')
    /\ ctx.psi.some
    /\ clock' - mon.last_psi_time >= ctx.psi.v.check_interval_ms
    /\ ~gauges'.psi.some

\* C29: when the PSI counter cannot be read on a tick where PSI is due,
\* last_psi_total, last_psi_time and psi_pressure are unchanged, no PSI
\* kill or warn is produced, and the warn the RAM or swap tier left pending
\* goes through the usual final decision: emitted (Warn) when the rate
\* limit allows it, suppressed (Normal) otherwise.
C29_PsiReadErrorSkips ==
    [][PsiReadFails =>
          LET allowed == \/ ~mon.last_warn_time.some
                         \/ returned' - mon.last_warn_time.v >= ctx.warn_reset_ms
          IN  /\ psi_read'
              /\ mon'.last_psi_total = mon.last_psi_total
              /\ mon'.last_psi_time = mon.last_psi_time
              /\ mon'.psi_pressure = mon.psi_pressure
              /\ status' # "Kill"
              /\ kill_event' = None
              /\ pending_warn'.some =>
                    pending_warn'.v.type \in {"LowMemoryWarn", "LowSwapWarn"}
              /\ \A i \in 1..Len(mev') : mev'[i].type # "PsiPressureWarn"
              /\ (pending_warn'.some /\ allowed) =>
                    /\ status' = "Warn"
                    /\ Warned(mev')
                    /\ mon'.last_warn_time = Some(clock')
              /\ ~(pending_warn'.some /\ allowed) =>
                    /\ status' = "Normal"
                    /\ ~Warned(mev')
                    /\ mon'.last_warn_time = mon.last_warn_time]_vars

\* a tick at which PSI was due with a baseline, the counter could not be
\* read, and the swap tier's warn was emitted
C29_Witness ==
    /\ ticks >= 2
    /\ psi_read
    /\ ~gauges.psi.some
    /\ mon.last_psi_total.some
    /\ mon.last_psi_time < clock
    /\ status = "Warn"
    /\ pending_warn.some
    /\ Warned(mev)

\* C31: the PSI tier runs only on ticks where the time since last_psi_time
\* is at least psi.check_interval_ms: on every other tick the counter is
\* not read, last_psi_total, last_psi_time and psi_pressure are unchanged
\* and no PSI warn or kill is produced; two successive baseline updates are
\* at least psi.check_interval_ms apart.
C31_PsiOnlyWhenDue ==
    [][(IsCheck /\ ctx.psi.some) =>
          /\ clock' - mon.last_psi_time < ctx.psi.v.check_interval_ms =>
                /\ ~psi_read'
                /\ mon'.last_psi_total = mon.last_psi_total
                /\ mon'.last_psi_time = mon.last_psi_time
                /\ mon'.psi_pressure = mon.psi_pressure
                /\ ~(status' = "Kill" /\ kill_event'.v.trigger = "PsiPressure")
                /\ ~(pending_warn'.some /\ pending_warn'.v.type = "PsiPressureWarn")
                /\ \A i \in 1..Len(mev') : mev'[i].type # "PsiPressureWarn"
          /\ mon'.last_psi_time # mon.last_psi_time =>
                /\ mon'.last_psi_time = clock'
                /\ mon'.last_psi_time - mon.last_psi_time
                      >= ctx.psi.v.check_interval_ms]_vars

\* the second tick, before the PSI interval has elapsed since the baseline
\* Monitor::new() took: the counter was readable and was not read
C31_Witness ==
    /\ ticks >= 2
    /\ ctx.psi.some
    /\ ~psi_read
    /\ gauges.psi.some
    /\ mon.last_psi_total.some
    /\ clock > mon.last_psi_time
    /\ clock - mon.last_psi_time < ctx.psi.v.check_interval_ms
    /\ status # "Kill"

\* the PSI tier of this check() takes its first sample: no RAM or swap
\* kill, the PSI interval has elapsed, the counter was read, no baseline
PsiFirstSample ==
    /\ IsCheck
    /\ ~RamKills(ctx, gauges')
    /\ ~SwapKills(ctx, gauges')
    /\ ctx.psi.some
    /\ clock' - mon.last_psi_time >= ctx.psi.v.check_interval_ms
    /\ gauges'.psi.some
    /\ ~mon.last_psi_total.some

\* C32: when PSI is due and last_psi_total is None, check() stores the
\* counter and the timestamp as the baseline, computes no pressure and
\* produces no PSI warn or kill on that tick.
C32_FirstSampleIsBaseline ==
    [][PsiFirstSample =>
          /\ psi_read'
          /\ mon'.last_psi_total = gauges'.psi
          /\ mon'.last_psi_time = clock'
          /\ mon'.psi_pressure = mon.psi_pressure
          /\ status' # "Kill"
          /\ kill_event' = None
          /\ ~(pending_warn'.some /\ pending_warn'.v.type = "PsiPressureWarn")
          /\ \A i \in 1..Len(mev') : mev'[i].type # "PsiPressureWarn"]_vars

\* a first sample far above the kill limit had it been a pressure: 100000
\* us of stall stored as baseline, no pressure, no kill
C32_Witness ==
    /\ ticks >= 1
    /\ psi_read
    /\ ctx.psi.some
    /\ clock > 0
    /\ mon.last_psi_total = Some(100000)
    /\ mon.last_psi_time = clock
    /\ ~mon.psi_pressure.some
    /\ status # "Kill"

\* whether, at the last check(), the RAM gauge, the swap gauge, the PSI
\* pressure computed by that check() is across its warn threshold
RamWarns ==
    /\ ctx.ram.some
    /\ gauges.total_memory > 0
    /\ check_warn(ctx.ram.v, gauges.available_memory,
                  Rat(gauges.available_memory * 100, gauges.total_memory)).some
SwapWarns ==
    /\ ctx.swap.some
    /\ gauges.total_swap > 0
    /\ check_warn(ctx.swap.v, gauges.free_swap,
                  Rat(gauges.free_swap * 100, gauges.total_swap)).some
PsiWarns ==
    /\ ctx.psi.some
    /\ psi_read
    /\ gauges.psi.some
    /\ mon.psi_pressure.some
    /\ ctx.psi.v.warn_max_percent.some
    /\ RatGt(mon.psi_pressure.v, ctx.psi.v.warn_max_percent.v)
WarnCount == Cardinality({i \in 1..Len(mev) : mev[i].type \in WarnTypes})

\* C33: after a check() that did not return Kill, the pending warn is that
\* of the highest-priority tier across its warn threshold (LowMemoryWarn
\* over LowSwapWarn over PsiPressureWarn), whatever the lower tiers read;
\* a check() that returns Warn (the rate limit lets the warn through)
\* emits exactly one warn event, the pending one, and any other check()
\* emits none.
C33_HighestPriorityWarn ==
    (ticks >= 1 /\ status # "Kill") =>
        /\ RamWarns => Pending("LowMemoryWarn")
        /\ (~RamWarns /\ SwapWarns) => Pending("LowSwapWarn")
        /\ (~RamWarns /\ ~SwapWarns /\ PsiWarns) => Pending("PsiPressureWarn")
        /\ pending_warn.some => (RamWarns \/ SwapWarns \/ PsiWarns)
        /\ status = "Warn" =>
              /\ pending_warn.some
              /\ WarnCount = 1
              /\ \E i \in 1..Len(mev) : mev[i] = pending_warn.v
        /\ status # "Warn" => WarnCount = 0

\* all three tiers across their warn thresholds in one tick, none across a
\* kill threshold: the warn emitted is LowMemoryWarn
C33_Witness ==
    /\ ticks >= 1
    /\ status = "Warn"
    /\ RamWarns
    /\ SwapWarns
    /\ PsiWarns
    /\ Pending("LowMemoryWarn")
    /\ WarnCount = 1

\* C37: every KillTriggered of the RAM or the swap tier carries
\* amount_needed > 0: whenever check_kill fires, calc_needed for the same
\* readings returns a positive amount, for a byte and for a percent kill
\* threshold.
C37_KillAmountPositive ==
    (/\ ticks >= 1
     /\ status = "Kill"
     /\ kill_event.v.trigger \in {"LowMemory", "LowSwap"}) =>
        /\ kill_event.v.amount_needed.some
        /\ kill_event.v.amount_needed.v > 0

(***************************************************************************)
(* Properties of run_loop                                                  *)
(***************************************************************************)
\* C17: a RAM or swap Kill verdict carries amount_needed = max(0, target -
\* current_free), target being kill_min_free_bytes if set, else
\* kill_min_free_percent / 100 x total in whole bytes, with None standing
\* for 0; when it is 0 the main loop does not enter kill_sequence (the
\* engine stays idle, a KillSequenceAborted is emitted) and no signal is
\* sent; otherwise kill_sequence is entered with that budget.  Signals are
\* only ever sent in a sequence entered with a positive budget.
C17_AmountAndDowngrade ==
    [][/\ (IsCheck /\ status' = "Kill"
             /\ kill_event'.v.trigger \in {"LowMemory", "LowSwap"}) =>
          LET ram == kill_event'.v.trigger = "LowMemory"
              conf == IF ram THEN ctx.ram.v ELSE ctx.swap.v
              free == IF ram THEN gauges'.available_memory
                      ELSE gauges'.free_swap
              total == IF ram THEN gauges'.total_memory
                       ELSE gauges'.total_swap
              target == IF conf.kill_min_free_bytes.some
                        THEN conf.kill_min_free_bytes.v
                        ELSE (conf.kill_min_free_percent.v * total) \div 100
              amount == IF target > free THEN target - free ELSE 0
          IN  /\ kill_event'.v.amount_needed =
                     IF amount = 0 THEN None ELSE Some(amount)
              /\ amount = 0 =>
                     /\ kpc' = "idle"
                     /\ seq_N' = None
                     /\ sent' = <<>>
                     /\ ~no_kill => kev'[Len(kev')].type = "KillSequenceAborted"
              /\ (amount > 0 /\ ~no_kill) =>
                     /\ kpc' = "scan"
                     /\ seq_N' = Some(amount)
       /\ sent' # <<>> => (seq_N'.some /\ seq_N'.v > 0)]_vars

\* a Kill verdict whose amount is 0, the engine left idle
C17_Witness ==
    /\ ticks >= 1
    /\ ~no_kill
    /\ status = "Kill"
    /\ kill_event.v.trigger = "LowMemory"
    /\ kill_event.v.amount_needed = None
    /\ kpc = "idle"
    /\ sent = <<>>

\* the signal kill_process is about to send cannot be sent: SIGTERM fails
\* with an error other than ESRCH, or SIGKILL fails
SignalFails ==
    \/ kpc = "sigterm" /\ KillErrno(procs, euid, victim.pid) \notin {"OK", "ESRCH"}
    \/ kpc = "sigkill" /\ KillErrno(procs, euid, victim.pid) # "OK"

\* C27: when SIGTERM fails with an error other than ESRCH, or SIGKILL
\* fails, the kill sequence ends there: KillSequenceAborted is emitted, no
\* signal is sent, nothing is credited for the victim, /proc is not scanned
\* again, and the next step of the daemon is the next check().
C27_SignalFailureAborts ==
    [][/\ (SignalFails /\ kpc' # kpc) =>
              /\ kpc' = "done"
              /\ ~last_ret'.freed.some
              /\ sent' = sent
              /\ credited' = credited
              /\ Len(kev') = Len(kev) + 2
              /\ kev'[Len(kev') - 1] =
                    [type |-> "KillSequenceAborted", pid |-> 0,
                     detail |-> IF kpc = "sigterm" THEN "Failed to send SIGTERM"
                                ELSE "Failed to send SIGKILL"]
              /\ kev'[Len(kev')] =
                    [type |-> "KillSequenceAborted", pid |-> 0,
                     detail |-> "Failed to kill victim"]
       /\ (kpc = "done" /\ ~last_ret.freed.some /\ last_ret.called) =>
              (IsCheck /\ clock' = returned + EngineTime + ctx.check_interval_ms)]_vars

\* a loop iteration after a kill sequence that ended on a SIGKILL the
\* kernel refused
C27_Witness ==
    /\ kpc = "done"
    /\ last_ret.called
    /\ last_ret.why = "sigkill_failed"
    /\ Len(sent) = 1
    /\ sent[1].sig = "SIGTERM"
    /\ seq_N.some

\* C22: with --no-kill, every Kill verdict has the KillTriggered event
\* emitted first and the informational "--no-kill active" message next,
\* kill_sequence is not entered and no signal is sent, at this or any other
\* tick; the loop sleeps check_interval_ms and runs the next tick.
C22_NoKillNeverKills ==
    [][no_kill =>
          /\ kpc' = "idle"
          /\ seq_N' = None
          /\ sent' = <<>>
          /\ procs' = procs
          /\ (IsCheck /\ status' = "Kill") =>
                 kev' = <<kill_event'.v,
                          [type |-> "Message", pid |-> 0,
                           detail |-> "--no-kill active. Skipping kill sequence.",
                           level |-> "Info"]>>
          /\ (IsCheck /\ ticks >= 1) =>
                 clock' = returned + ctx.check_interval_ms]_vars

\* under --no-kill: a Kill verdict with a budget after an earlier Kill
\* verdict, the engine idle
C22_Witness ==
    /\ no_kill
    /\ ticks >= 2
    /\ status = "Kill"
    /\ kill_event.v.amount_needed.some
    /\ Len(kev) = 2
    /\ kev[1].type = "KillTriggered"
    /\ kev[2].type = "Message"
    /\ kpc = "idle"
    /\ mon.ram_bytes.some /\ mon.ram_bytes.v = gauges.available_memory

\* C23: once the SIGTERM/SIGINT handler has cleared the running flag, the
\* loop starts no new check(), a kill sequence in flight runs to its end,
\* and the daemon eventually leaves the loop and emits the exit message.
C23_ShutdownExits ==
    (~RUNNING) ~> (kpc = "exited" /\ kev[Len(kev)].detail = "Exiting ram-sentinel.")

(***************************************************************************)
(* Properties of Config::load                                              *)
(***************************************************************************)
\* some threshold of the section is set
MemorySet(m) ==
    \/ m.warn_min_free_bytes.some
    \/ m.warn_min_free_percent.some
    \/ m.kill_min_free_bytes.some
    \/ m.kill_min_free_percent.some

PsiSet(q) == q.warn_max_percent.some \/ q.kill_max_percent.some

\* the percent thresholds of a context
PercentsOf(c) ==
    (IF c.ram.some
     THEN {c.ram.v.warn_min_free_percent, c.ram.v.kill_min_free_percent}
     ELSE {}) \cup
    (IF c.swap.some
     THEN {c.swap.v.warn_min_free_percent, c.swap.v.kill_min_free_percent}
     ELSE {}) \cup
    (IF c.psi.some
     THEN {c.psi.v.warn_max_percent, c.psi.v.kill_max_percent}
     ELSE {})

\* C24: every RuntimeContext returned by Config::load has a threshold set
\* in one of ram, swap, psi; 100 <= check_interval_ms <= 300000; every
\* percent threshold within [0, 100]; and amount_to_free present and
\* positive when psi.kill_max_percent is set.
C24_LoadedContextValid ==
    (loaded.done /\ loaded.ok) =>
        /\ \/ ctx.ram.some /\ MemorySet(ctx.ram.v)
           \/ ctx.swap.some /\ MemorySet(ctx.swap.v)
           \/ ctx.psi.some /\ PsiSet(ctx.psi.v)
        /\ 100 <= ctx.check_interval_ms
        /\ ctx.check_interval_ms <= 300000
        /\ \A p \in PercentsOf(ctx) :
              p.some => (~p.v.nan /\ 0 <= p.v.v /\ p.v.v <= 100)
        /\ (ctx.psi.some /\ ctx.psi.v.kill_max_percent.some) =>
              (ctx.psi.v.amount_to_free.some /\ ctx.psi.v.amount_to_free.v > 0)

\* the exit code the specification's table gives an error
TableCode(err) ==
    CASE err \in {"FileRead", "ConfigFileNotFound"} -> 2
      [] err = "FileParse" -> 3
      [] err = "EffectiveEmpty" -> 4
      [] err = "PsiConfig" -> 7
      [] err = "PsiUnavailable" -> 8
      [] err = "RegexError" -> 9
      [] err = "InvalidSize" -> 10
      [] err = "InvalidPercent" -> 11
      [] err = "IntervalTooHigh" -> 5
      [] err = "IntervalTooLow" -> 6

\* the file was parsed and sets some threshold
Thresholds(in) ==
    /\ in.source = "file"
    /\ \/ in.config.ram.some /\ MemorySet(in.config.ram.v)
       \/ in.config.swap.some /\ MemorySet(in.config.swap.v)
       \/ in.config.psi.some /\ PsiSet(in.config.psi.v)

\* C25: for a configuration file that sets some threshold, Config::load
\* raises no interval error for check_interval_ms = 100 and = 300000,
\* rejects 99 with IntervalTooLow (exit code 6) and 300001 with
\* IntervalTooHigh (exit code 5); and every error is mapped to the exit
\* code of the table.
C25_IntervalBoundsAndCodes ==
    loaded.done =>
        /\ ~loaded.ok => loaded.exit_code = TableCode(loaded.err)
        /\ loaded.ok => loaded.exit_code = 0
        /\ Thresholds(input) =>
              /\ input.config.check_interval_ms \in {100, 300000} =>
                    loaded.err \notin {"IntervalTooLow", "IntervalTooHigh"}
              /\ input.config.check_interval_ms = 99 =>
                    (loaded.err = "IntervalTooLow" /\ loaded.exit_code = 6)
              /\ input.config.check_interval_ms = 300001 =>
                    (loaded.err = "IntervalTooHigh" /\ loaded.exit_code = 5)

\* a file with check_interval_ms = 300000 loaded into a context
C25_Witness ==
    /\ loaded.done
    /\ loaded.ok
    /\ input.source = "file"
    /\ input.config.check_interval_ms = 300000
    /\ ctx.check_interval_ms = 300000

\* the configuration sets a PSI warn or kill threshold
PsiEnabled(in) ==
    /\ in.source \in {"file", "defaults"}
    /\ LET c == IF in.source = "defaults" THEN sane_defaults ELSE in.config
       IN  c.psi.some /\ PsiSet(c.psi.v)

\* C26: Config::load fails with PsiUnavailable (exit code 8) only when the
\* configuration sets a PSI threshold and /proc/pressure/memory cannot be
\* read; a configuration without a PSI threshold, the built-in defaults
\* included, never fails so.
C26_PsiUnavailableOnlyIfEnabled ==
    (loaded.done /\ loaded.err = "PsiUnavailable") =>
        (PsiEnabled(input) /\ ~input.psi_available /\ loaded.exit_code = 8)

\* this iteration's check() returns Kill without an amount, --no-kill off
KillWithoutAmount ==
    /\ IsCheck
    /\ ~no_kill
    /\ status' = "Kill"
    /\ ~kill_event'.v.amount_needed.some

\* C30 as stated: on a Kill verdict whose amount_needed is absent the main
\* loop reports the condition with an event of error severity, does not
\* enter kill_sequence, sends no signal, and goes on to the sleep and the
\* next tick.
C30_NoAmountLoggedAsError ==
    [][KillWithoutAmount =>
          /\ kpc' = "idle"
          /\ seq_N' = None
          /\ sent' = <<>>
          /\ Len(kev') = 2
          /\ kev'[2].detail = "Kill triggered but amount_needed is None/Zero"
          /\ severity(kev'[2]) = "Error"]_vars

\* C30, amended: the KillTriggered event (error severity) is emitted, the
\* condition itself is reported by a KillSequenceAborted event of info
\* severity; kill_sequence is not entered, no signal is sent, and the next
\* check() follows after check_interval_ms.
C30_NoAmountLoggedAsInfo ==
    [][/\ KillWithoutAmount =>
              /\ kpc' = "idle"
              /\ seq_N' = None
              /\ sent' = <<>>
              /\ procs' = procs
              /\ kev' = <<kill_event'.v,
                          [type |-> "KillSequenceAborted", pid |-> 0,
                           detail |-> "Kill triggered but amount_needed is None/Zero"]>>
              /\ severity(kev'[1]) = "Error"
              /\ severity(kev'[2]) = "Info"
       /\ (IsCheck /\ ~no_kill /\ status = "Kill"
              /\ ~kill_event.v.amount_needed.some) =>
              (kpc = "idle" /\ clock' = returned + ctx.check_interval_ms)]_vars

\* a check() that followed an iteration whose Kill verdict had no amount
C30_Witness ==
    /\ ~no_kill
    /\ ticks >= 2
    /\ status = "Kill"
    /\ kill_event.v.type = "KillTriggered"
    /\ ~kill_event.v.amount_needed.some
    /\ kpc = "idle"
    /\ Len(kev) = 2
    /\ kev[2].type = "KillSequenceAborted"
    /\ sent = <<>>
    /\ clock >= ctx.check_interval_ms


\* C40: the events emitted reflect real decisions only: a KillTriggered
\* event comes with a Kill verdict of check(), a warn event with a tick
\* that returned Warn, a KillExecuted event with a kill_process call that
\* signalled that pid; none is emitted at startup or outside these
\* operations.  (mev: what Monitor::new() or the last check() emitted; kev:
\* what the loop and the kill engine emitted since.)
C40_EventsAreReal ==
    /\ \A i \in 1..Len(mev) :
          /\ mev[i].type \in WarnTypes =>
                (ticks >= 1 /\ status = "Warn" /\ pending_warn = Some(mev[i]))
          /\ mev[i].type \notin {"KillTriggered", "KillExecuted"}
    /\ \A i \in 1..Len(kev) :
          /\ kev[i].type = "KillTriggered" =>
                (ticks >= 1 /\ status = "Kill" /\ kill_event = Some(kev[i]))
          /\ kev[i].type = "KillExecuted" =>
                \E k \in 1..Len(sent) : sent[k].pid = kev[i].pid
          /\ kev[i].type \notin WarnTypes

====
